---- MODULE Spec2Model ----
(***************************************************************************)
(* A model of the "singleton" consensus engine: consensus/src/lib.rs (the  *)
(* seal verifier, the decorated block import, the block authoring loop and *)
(* the finality gossip gadget) as wired by node/src/service.rs.            *)
(*                                                                         *)
(* Cryptography is symbolic: a hash is the wrapped pre-image (injective),  *)
(* a signature is a fixed-length byte array whose first byte names signer  *)
(* and message, and verification accepts exactly the array that signing    *)
(* with the matching private key produces.  Byte strings are sequences, so *)
(* that decoding (which reads a fixed-length prefix and ignores the rest)  *)
(* and re-encoding are computed, not assumed.                              *)
(***************************************************************************)
EXTENDS Naturals, Sequences, FiniteSets, TLC

(***************************************************************************)
(* Bounds of the model.                                                    *)
(***************************************************************************)
\* Length of an encoded signature (64 bytes in sr25519, scaled down).
SigLen == 2
\* Number of ticks the authoring loop runs in the network of nodes.
MaxTicks == 1
\* Number of ticks the authoring loop runs when it is checked on its own.
MaxAuthorTicks == 3

(***************************************************************************)
(* Option values: None is the empty sequence, Some(x) the one-element one. *)
(***************************************************************************)
None == <<>>
Some(x) == <<x>>
IsSome(o) == o /= <<>>
Unwrap(o) == o[1]

(***************************************************************************)
(* Keys.  service.rs configures Alice as block authority and Bob as        *)
(* finality authority.                                                     *)
(***************************************************************************)
Alice == "alice"
Bob == "bob"
block_authority == Alice
finality_authority == Bob

SINGLETON_ENGINE_ID == "SGTN"
OtherEngineId == "BABE"

(***************************************************************************)
(* Hashing and sr25519 signatures.                                         *)
(***************************************************************************)
Hash(x) == [hashOf |-> x]

PadByte == [pad |-> 0]
JunkByte == [pad |-> 1]
SigByte(key, hash) == [signer |-> key, msg |-> hash]

\* Pair::sign: the signature (a wrapped byte array of SigLen bytes).
Sign(key, hash) ==
  [raw |-> [i \in 1..SigLen |-> IF i = 1 THEN SigByte(key, hash) ELSE PadByte]]

\* Public::verify(msg, signature).
SigVerify(public, hash, sig) == sig = Sign(public, hash)

\* A signature with its last byte flipped.
Corrupt(sig) == [raw |-> [sig.raw EXCEPT ![SigLen] = JunkByte]]

(***************************************************************************)
(* The codec derived for SingletonSeal / SingletonFinalityJustification:   *)
(* the encoding is the byte array; decoding reads SigLen bytes from the    *)
(* input and fails when fewer are left (bytes after them are not read).    *)
(***************************************************************************)
Encode(sig) == sig.raw

Decode(bytes) ==
  IF Len(bytes) < SigLen
    THEN None
    ELSE Some([raw |-> SubSeq(bytes, 1, SigLen)])

\* SingletonFinalityMessage: the hash (one unit) followed by the proof.
EncodeMessage(msg) == <<msg.block_hash>> \o Encode(msg.proof)

DecodeMessage(bytes) ==
  IF bytes = <<>> \/ ~IsSome(Decode(Tail(bytes)))
    THEN None
    ELSE Some([block_hash |-> Head(bytes), proof |-> Unwrap(Decode(Tail(bytes)))])

(***************************************************************************)
(* Digest items and headers.                                               *)
(***************************************************************************)
Seal(id, data) == [kind |-> "Seal", engine |-> id, data |-> data]
PreRuntime(id, data) == [kind |-> "PreRuntime", engine |-> id, data |-> data]

\* impl From<SingletonSeal> for DigestItem
SealToDigest(seal) == Seal(SINGLETON_ENGINE_ID, Encode(seal))

Pop(s) == SubSeq(s, 1, Len(s) - 1)
Last(s) == s[Len(s)]

ZeroHash == Hash([zero |-> TRUE])
GenesisHeader ==
  [parent_hash |-> ZeroHash, number |-> 0, extrinsics_root |-> 0, digest |-> <<>>]
GenesisHash == Hash(GenesisHeader)

(***************************************************************************)
(* SingletonVerifier                                                       *)
(***************************************************************************)
\* Variants of check_header with a slip, against which the properties of
\* the verifier are tried: the seal is decoded before its engine is looked
\* at; the seal is read without being popped.
check_header_decode_first(authority, header) ==
  IF header.digest = <<>>
    THEN [ok |-> FALSE, err |-> "Unsealed header", header |-> header]
    ELSE
      LET item == Last(header.digest)
          popped == [header EXCEPT !.digest = Pop(header.digest)]
      IN
      IF item.kind /= "Seal"
        THEN [ok |-> FALSE, err |-> "Unsealed header", header |-> popped]
      ELSE IF ~IsSome(Decode(item.data))
        THEN [ok |-> FALSE, err |-> "Header with invalid seal", header |-> popped]
      ELSE IF item.engine /= SINGLETON_ENGINE_ID
        THEN [ok |-> FALSE, err |-> "Header seal for wrong engine", header |-> popped]
      ELSE IF ~SigVerify(authority, Hash(popped), Unwrap(Decode(item.data)))
        THEN [ok |-> FALSE, err |-> "Invalid seal signature.", header |-> popped]
      ELSE [ok |-> TRUE, seal |-> Unwrap(Decode(item.data)), header |-> popped]

check_header_no_pop(authority, header) ==
  IF header.digest = <<>>
    THEN [ok |-> FALSE, err |-> "Unsealed header", header |-> header]
    ELSE
      LET item == Last(header.digest)
          popped == [header EXCEPT !.digest = Pop(header.digest)]
      IN
      IF item.kind /= "Seal"
        THEN [ok |-> FALSE, err |-> "Unsealed header", header |-> header]
      ELSE IF item.engine /= SINGLETON_ENGINE_ID
        THEN [ok |-> FALSE, err |-> "Header seal for wrong engine", header |-> header]
      ELSE IF ~IsSome(Decode(item.data))
        THEN [ok |-> FALSE, err |-> "Header with invalid seal", header |-> header]
      ELSE IF ~SigVerify(authority, Hash(popped), Unwrap(Decode(item.data)))
        THEN [ok |-> FALSE, err |-> "Invalid seal signature.", header |-> header]
      ELSE [ok |-> TRUE, seal |-> Unwrap(Decode(item.data)), header |-> header]

\* A variant of check_header with a slip of another kind: the seal of
\* another engine is pushed back before the header is rejected.
check_header_restores(authority, header) ==
  IF header.digest = <<>>
    THEN [ok |-> FALSE, err |-> "Unsealed header", header |-> header]
    ELSE
      LET item == Last(header.digest)
          popped == [header EXCEPT !.digest = Pop(header.digest)]
      IN
      IF item.kind /= "Seal"
        THEN [ok |-> FALSE, err |-> "Unsealed header", header |-> popped]
      ELSE IF item.engine /= SINGLETON_ENGINE_ID
        THEN [ok |-> FALSE, err |-> "Header seal for wrong engine", header |-> header]
      ELSE IF ~IsSome(Decode(item.data))
        THEN [ok |-> FALSE, err |-> "Header with invalid seal", header |-> popped]
      ELSE IF ~SigVerify(authority, Hash(popped), Unwrap(Decode(item.data)))
        THEN [ok |-> FALSE, err |-> "Invalid seal signature.", header |-> popped]
      ELSE [ok |-> TRUE, seal |-> Unwrap(Decode(item.data)), header |-> popped]

\* check_header(&self, header: &mut Header): the header is changed in place
\* by the pop, whatever the outcome.
check_header(authority, header) ==
  IF header.digest = <<>>
    THEN [ok |-> FALSE, err |-> "Unsealed header", header |-> header]
    ELSE
      LET item == Last(header.digest)
          popped == [header EXCEPT !.digest = Pop(header.digest)]
      IN
      IF item.kind /= "Seal"
        THEN [ok |-> FALSE, err |-> "Unsealed header", header |-> popped]
      ELSE IF item.engine /= SINGLETON_ENGINE_ID
        THEN [ok |-> FALSE, err |-> "Header seal for wrong engine", header |-> popped]
      ELSE IF ~IsSome(Decode(item.data))
        THEN [ok |-> FALSE, err |-> "Header with invalid seal", header |-> popped]
      ELSE IF ~SigVerify(authority, Hash(popped), Unwrap(Decode(item.data)))
        THEN [ok |-> FALSE, err |-> "Invalid seal signature.", header |-> popped]
      ELSE [ok |-> TRUE, seal |-> Unwrap(Decode(item.data)), header |-> popped]

\* BlockImportParams::new(origin, header)
NewBlockImportParams(origin, header) ==
  [origin |-> origin,
   header |-> header,
   justification |-> None,
   post_digests |-> <<>>,
   body |-> None,
   storage_changes |-> None,
   finalized |-> FALSE,
   fork_choice |-> None,
   post_hash |-> None]

\* A variant of verify with a slip: the post hash is taken after the seal
\* was popped.
verify_hash_after_pop(authority, origin, header, justification, body) ==
  LET checked == check_header(authority, header) IN
  IF ~checked.ok
    THEN [ok |-> FALSE, err |-> checked.err]
    ELSE [ok |-> TRUE,
          import_params |->
            [NewBlockImportParams(origin, checked.header) EXCEPT
               !.body = body,
               !.post_digests = <<SealToDigest(checked.seal)>>,
               !.post_hash = Some(Hash(checked.header)),
               !.justification = justification,
               !.finalized = FALSE,
               !.fork_choice = Some("LongestChain")],
          cache |-> None]

\* Verifier::verify: Err(message), or Ok((import_params, None)).
verify(authority, origin, header, justification, body) ==
  LET hash == Hash(header)
      checked == check_header(authority, header)
  IN
  IF ~checked.ok
    THEN [ok |-> FALSE, err |-> checked.err]
    ELSE [ok |-> TRUE,
          import_params |->
            [NewBlockImportParams(origin, checked.header) EXCEPT
               !.body = body,
               !.post_digests = <<SealToDigest(checked.seal)>>,
               !.post_hash = Some(hash),
               !.justification = justification,
               !.finalized = FALSE,
               !.fork_choice = Some("LongestChain")],
          cache |-> None]

(***************************************************************************)
(* SingletonBlockImport                                                    *)
(***************************************************************************)
\* Variants of import_block with a slip: the justification is put back as
\* it was received; the justification is trusted once it decodes.
import_block_as_received(authority, block) ==
  LET justification ==
        IF IsSome(block.justification)
          THEN Decode(Unwrap(block.justification))
          ELSE None
      taken == [block EXCEPT !.justification = None]
  IN
  IF ~IsSome(justification)
    THEN [panic |-> FALSE, block |-> taken]
  ELSE IF ~IsSome(block.post_hash)
    THEN [panic |-> TRUE, block |-> taken]
  ELSE IF SigVerify(authority, Unwrap(block.post_hash), Unwrap(justification))
    THEN [panic |-> FALSE, block |-> [block EXCEPT !.finalized = TRUE]]
    ELSE [panic |-> FALSE, block |-> taken]

import_block_unverified(authority, block) ==
  LET justification ==
        IF IsSome(block.justification)
          THEN Decode(Unwrap(block.justification))
          ELSE None
      taken == [block EXCEPT !.justification = None]
  IN
  IF ~IsSome(justification)
    THEN [panic |-> FALSE, block |-> taken]
  ELSE IF ~IsSome(block.post_hash)
    THEN [panic |-> TRUE, block |-> taken]
  ELSE [panic |-> FALSE,
        block |-> [taken EXCEPT
                     !.justification = Some(Encode(Unwrap(justification))),
                     !.finalized = TRUE]]

\* A variant of import_block with a slip of another kind: the justification
\* is read and not taken, so one that fails stays on the request.
import_block_not_taken(authority, block) ==
  LET justification ==
        IF IsSome(block.justification)
          THEN Decode(Unwrap(block.justification))
          ELSE None
  IN
  IF ~IsSome(justification)
    THEN [panic |-> FALSE, block |-> block]
  ELSE IF ~IsSome(block.post_hash)
    THEN [panic |-> TRUE, block |-> block]
  ELSE IF SigVerify(authority, Unwrap(block.post_hash), Unwrap(justification))
    THEN [panic |-> FALSE,
          block |-> [block EXCEPT
                       !.justification = Some(Encode(Unwrap(justification))),
                       !.finalized = TRUE]]
    ELSE [panic |-> FALSE, block |-> block]

\* import_block up to the call of the inner import: the request handed to
\* the inner import, or a panic when a decodable justification comes with
\* no post hash (the expect).
import_block(authority, block) ==
  LET justification ==
        IF IsSome(block.justification)
          THEN Decode(Unwrap(block.justification))
          ELSE None
      taken == [block EXCEPT !.justification = None]
  IN
  IF ~IsSome(justification)
    THEN [panic |-> FALSE, block |-> taken]
  ELSE IF ~IsSome(block.post_hash)
    THEN [panic |-> TRUE, block |-> taken]
  ELSE IF SigVerify(authority, Unwrap(block.post_hash), Unwrap(justification))
    THEN [panic |-> FALSE,
          block |-> [taken EXCEPT
                       !.justification = Some(Encode(Unwrap(justification))),
                       !.finalized = TRUE]]
    ELSE [panic |-> FALSE, block |-> taken]

(***************************************************************************)
(* The ledger collaborator (the client): the tree of imported blocks, the  *)
(* best block and the last finalized block.  Not code of this repository:  *)
(* modelled from the collaborator contract of the specification.           *)
(***************************************************************************)
GenesisLedger ==
  [blocks |-> {[hash |-> GenesisHash, parent |-> ZeroHash, number |-> 0,
                justification |-> None]},
   best |-> GenesisHash,
   finalized |-> GenesisHash]

Known(L) == {b.hash : b \in L.blocks}
BlockOf(L, h) == CHOOSE b \in L.blocks : b.hash = h

RECURSIVE IsAncestorOrEq(_, _, _)
\* a is h or an ancestor of h in the tree of L.
IsAncestorOrEq(L, a, h) ==
  \/ a = h
  \/ /\ h \in Known(L)
     /\ BlockOf(L, h).number > 0
     /\ IsAncestorOrEq(L, a, BlockOf(L, h).parent)

\* The finalized blocks: the last finalized one and its ancestors.
FinalizedSet(L) == {h \in Known(L) : IsAncestorOrEq(L, h, L.finalized)}

\* import(request): the inner "commit this block" operation.  A request
\* marked final makes the block the last finalized one when it descends
\* from the last finalized block; for a block that does not, the mark is a
\* no-op and not an error: the block is stored and finality stays.
LedgerImport(L, params, fail) ==
  LET hash == IF IsSome(params.post_hash)
                THEN Unwrap(params.post_hash)
                ELSE Hash(params.header)
      parent == params.header.parent_hash
      number == params.header.number
      new_best == number > BlockOf(L, L.best).number
      finalizes == params.finalized /\ IsAncestorOrEq(L, L.finalized, parent)
      unchanged(res) == [ledger |-> L, result |-> res, notification |-> None]
  IN
  IF fail THEN unchanged("Err")
  ELSE IF hash \in Known(L) THEN unchanged("AlreadyInChain")
  ELSE IF parent \notin Known(L) THEN unchanged("UnknownParent")
  ELSE [ledger |->
          [blocks |-> L.blocks \cup
                        {[hash |-> hash, parent |-> parent, number |-> number,
                          justification |-> params.justification]},
           best |-> IF new_best THEN hash ELSE L.best,
           finalized |-> IF finalizes THEN hash ELSE L.finalized],
        result |-> "Imported",
        notification |-> Some([hash |-> hash, is_new_best |-> new_best])]

\* check_block(hash, parent_hash): a block the ledger holds is already in
\* the chain, one whose parent it does not hold has an unknown parent, and
\* any other may be imported.
LedgerCheck(L, hash, parent) ==
  IF hash \in Known(L) THEN "AlreadyInChain"
  ELSE IF parent \notin Known(L) THEN "UnknownParent"
  ELSE "Imported"

\* finalize(hash, justification, notify): an unknown hash is an error; a
\* block that is already final, or that does not descend from the last
\* finalized one, leaves the ledger as it is; fail is an error the
\* collaborator reports for reasons of its own (storage).
LedgerFinalize(L, hash, justification, fail) ==
  IF fail \/ hash \notin Known(L)
    THEN [ledger |-> L, result |-> "Err"]
  ELSE IF hash \in FinalizedSet(L) \/ ~IsAncestorOrEq(L, L.finalized, hash)
    THEN [ledger |-> L, result |-> "Ok"]
  ELSE [ledger |->
          [L EXCEPT
             !.blocks = (L.blocks \ {BlockOf(L, hash)}) \cup
                          {[BlockOf(L, hash) EXCEPT !.justification = justification]},
             !.finalized = hash],
        result |-> "Ok"]

(***************************************************************************)
(* The state of a small network of nodes.                                  *)
(***************************************************************************)
VARIABLES
  role,       \* per node: is it a block author, does it hold the finality key
  ledger,     \* per node: the ledger collaborator's state
  notifs,     \* per node: import notifications the producer has not yet read
  gossip,     \* the finality payloads flooded on the topic so far
  announced,  \* the sealed blocks the network can deliver to import queues
  pc,         \* per node: where the authoring thread is ("ready", "proposing"
              \* from the start of a tick, "importing" when the inner
              \* import is taken as a step of its own, "sleeping")
  ticks,      \* number of authoring ticks started so far, over all nodes
  gadget,     \* per node: the finality gadget task ("created", not yet
              \* polled, then "running" / "exited")
  ev,         \* what the last handler did (its inputs, its calls, its result)
  inflight    \* per node: the calls the authoring thread is blocked on

vars == <<role, ledger, notifs, gossip, announced, pc, ticks, gadget, ev, inflight>>

Node == {"A", "B"}

\* What the proposer puts in the block a node authors.
Content(n) == IF n = "A" THEN 1 ELSE 2

(***************************************************************************)
(* start_singleton_block_author                                            *)
(***************************************************************************)
ProposeSteps == {"ok", "best_chain", "init", "propose"}

\* select_chain.best_chain(): the header of the best block, of which the
\* model keeps the hash and the number.
best_chain(L) == [hash |-> L.best, number |-> BlockOf(L, L.best).number]

\* propose_block: best_chain, Environment::init, Proposer::propose; each may
\* fail (step names the one that does).  best_header is what best_chain
\* returned when the closure was entered: the two block_on calls that
\* follow build on it, whatever the ledger has become meanwhile.
propose_block(best_header, content, step) ==
  IF step = "best_chain"
    THEN [ok |-> FALSE, err |-> "Failed to select best chain"]
  ELSE IF step = "init"
    THEN [ok |-> FALSE, err |-> "Failed to initialize proposer"]
  ELSE IF step = "propose"
    THEN [ok |-> FALSE, err |-> "Failed proposing block"]
  ELSE [ok |-> TRUE,
        header |-> [parent_hash |-> best_header.hash,
                    number |-> best_header.number + 1,
                    extrinsics_root |-> content,
                    digest |-> <<>>],
        body |-> <<content>>,
        storage_changes |-> content]

\* A variant of seal_block with a slip: the seal is left on the header.
seal_block_no_pop(authority_key, header) ==
  LET hash == Hash(header)
      seal == Seal(SINGLETON_ENGINE_ID, Encode(Sign(authority_key, hash)))
      pushed == [header EXCEPT !.digest = Append(header.digest, seal)]
  IN [post_hash |-> Hash(pushed), seal |-> Last(pushed.digest), header |-> pushed]

\* A variant of seal_block with a slip: the post hash is taken before the
\* seal is pushed.
seal_block_hash_before_push(authority_key, header) ==
  LET hash == Hash(header)
      seal == Seal(SINGLETON_ENGINE_ID, Encode(Sign(authority_key, hash)))
      pushed == [header EXCEPT !.digest = Append(header.digest, seal)]
  IN [post_hash |-> hash,
      seal |-> Last(pushed.digest),
      header |-> [pushed EXCEPT !.digest = Pop(pushed.digest)]]

\* seal_block(&mut header): the post hash, the seal, and the header after
\* the push and the pop.
seal_block(authority_key, header) ==
  LET hash == Hash(header)
      seal == Seal(SINGLETON_ENGINE_ID, Encode(Sign(authority_key, hash)))
      pushed == [header EXCEPT !.digest = Append(header.digest, seal)]
      post_hash == Hash(pushed)
  IN [post_hash |-> post_hash,
      seal |-> Last(pushed.digest),
      header |-> [pushed EXCEPT !.digest = Pop(pushed.digest)]]

\* The import request author_block builds from a proposal.
author_params(authority_key, proposal) ==
  LET sealed == seal_block(authority_key, proposal.header) IN
  [NewBlockImportParams("Own", sealed.header) EXCEPT
     !.post_digests = <<sealed.seal>>,
     !.body = Some(proposal.body),
     !.storage_changes = Some(proposal.storage_changes),
     !.post_hash = Some(sealed.post_hash),
     !.fork_choice = Some("LongestChain")]

\* A variant of author_block with a slip: the tick returns when the node
\* is syncing (what the debug message of that branch says).
author_block_skips_sync(authority_key, best_header, L, syncing, content, step, fail) ==
  LET proposal == propose_block(best_header, content, step) IN
  IF syncing
    THEN [result |-> "Ok", err |-> "", submitted |-> None,
          ledger |-> L, notification |-> None, imported |-> FALSE]
  ELSE IF ~proposal.ok
    THEN [result |-> "Err", err |-> proposal.err, submitted |-> None,
          ledger |-> L, notification |-> None, imported |-> FALSE]
    ELSE
      LET import_params == author_params(authority_key, proposal)
          inner == LedgerImport(L, import_params, fail)
      IN [result |-> IF inner.result = "Err" THEN "Err" ELSE "Ok",
          err |-> IF inner.result = "Err"
                    THEN "Failed to import authored block" ELSE "",
          submitted |-> Some(import_params),
          ledger |-> inner.ledger,
          notification |-> inner.notification,
          imported |-> inner.result = "Imported"]

\* author_block: one tick of the loop, with the inner import (the client).
\* The proposal is built on best_header, the import is made into L, the
\* ledger as it is when the proposal has returned.
author_block(authority_key, best_header, L, syncing, content, step, fail) ==
  LET proposal == propose_block(best_header, content, step) IN
  IF ~proposal.ok
    THEN [result |-> "Err", err |-> proposal.err, submitted |-> None,
          ledger |-> L, notification |-> None, imported |-> FALSE]
    ELSE
      LET import_params == author_params(authority_key, proposal)
          inner == LedgerImport(L, import_params, fail)
      IN [result |-> IF inner.result = "Err" THEN "Err" ELSE "Ok",
          err |-> IF inner.result = "Err"
                    THEN "Failed to import authored block" ELSE "",
          submitted |-> Some(import_params),
          ledger |-> inner.ledger,
          notification |-> inner.notification,
          imported |-> inner.result = "Imported"]

\* The block as the network carries it: the header with its seal.
WireBlock(params) ==
  [header |-> [params.header EXCEPT
                 !.digest = params.header.digest \o params.post_digests],
   body |-> params.body]

\* The import notification stream exists once the producer has subscribed.
Notify(n, notification) ==
  IF IsSome(notification) /\ role[n].attester /\ gadget[n] = "running"
    THEN [notifs EXCEPT ![n] = Append(notifs[n], Unwrap(notification))]
    ELSE notifs

\* A tick begins: author_block is entered, asks the sync oracle, and
\* propose_block reads the best header; the thread then blocks on the
\* proposal (block_on) and after it on the inner import, each call
\* returning before the next statement runs.  Other threads of the node
\* (the import queue, the gadget) run meanwhile.
Call(n, call) == [inflight EXCEPT ![n] = Append(inflight[n], call)]
Return(n) == [inflight EXCEPT ![n] = Pop(inflight[n])]

\* A variant of StartTick with a slip: the tick is spawned and not waited
\* for.
StartTick_spawned(n, syncing) ==
  /\ role[n].author
  /\ pc[n] = "ready"
  /\ pc' = [pc EXCEPT ![n] = "sleeping"]
  /\ inflight' = Call(n, [call |-> "propose", syncing |-> syncing,
                         best |-> best_chain(ledger[n])])
  /\ ticks' = ticks + 1
  /\ UNCHANGED <<role, ledger, notifs, gossip, announced, gadget, ev>>

StartTick(n, syncing) ==
  /\ role[n].author
  /\ pc[n] = "ready"
  /\ pc' = [pc EXCEPT ![n] = "proposing"]
  /\ inflight' = Call(n, [call |-> "propose", syncing |-> syncing,
                         best |-> best_chain(ledger[n])])
  /\ ticks' = ticks + 1
  /\ UNCHANGED <<role, ledger, notifs, gossip, announced, gadget, ev>>

\* A variant of the loop with a slip: an error of author_block is returned
\* from the loop (a ? in place of the if let Err).
AuthorBlock_returns(n, step, fail) ==
  /\ pc[n] = "proposing"
  /\ LET call == Last(inflight[n])
         r == author_block(Alice, call.best, ledger[n], call.syncing,
                           Content(n), step, fail)
     IN
       /\ ledger' = [ledger EXCEPT ![n] = r.ledger]
       /\ notifs' = Notify(n, r.notification)
       /\ announced' = IF r.imported
                         THEN announced \cup {WireBlock(Unwrap(r.submitted))}
                         ELSE announced
       /\ ev' = [op |-> "author_block", node |-> n, syncing |-> call.syncing,
                 step |-> step, result |-> r.result, submitted |-> r.submitted]
       /\ pc' = [pc EXCEPT ![n] = IF r.result = "Err" THEN "returned" ELSE "sleeping"]
  /\ inflight' = Return(n)
  /\ UNCHANGED <<role, gossip, ticks, gadget>>

\* The rest of a tick entered by StartTick, in one step: from best_chain's
\* answer to the return of the inner import the thread reads nothing of
\* the ledger, so the proposal comes from the header read at the start and
\* the import meets the ledger as the other threads have left it.
AuthorBlock(n, step, fail) ==
  /\ pc[n] = "proposing"
  /\ LET call == Last(inflight[n])
         r == author_block(Alice, call.best, ledger[n], call.syncing,
                           Content(n), step, fail)
     IN
       /\ ledger' = [ledger EXCEPT ![n] = r.ledger]
       /\ notifs' = Notify(n, r.notification)
       /\ announced' = IF r.imported
                         THEN announced \cup {WireBlock(Unwrap(r.submitted))}
                         ELSE announced
       /\ ev' = [op |-> "author_block", node |-> n, syncing |-> call.syncing,
                 step |-> step, result |-> r.result, submitted |-> r.submitted]
  /\ pc' = [pc EXCEPT ![n] = "sleeping"]
  /\ inflight' = Return(n)
  /\ UNCHANGED <<role, gossip, ticks, gadget>>

\* thread::sleep returns; the loop calls author_block again.
Sleep(n) ==
  /\ pc[n] = "sleeping"
  /\ pc' = [pc EXCEPT ![n] = "ready"]
  /\ UNCHANGED <<inflight, role, ledger, notifs, gossip, announced, ticks, gadget, ev>>

\* propose_block returns: with an error the tick is over, else the block is
\* sealed and the inner import is called.
ProposeReturns(n, step) ==
  /\ pc[n] = "proposing"
  /\ LET proposal == propose_block(Last(inflight[n]).best, Content(n), step)
         syncing == Last(inflight[n]).syncing
     IN IF proposal.ok
          THEN /\ pc' = [pc EXCEPT ![n] = "importing"]
               /\ inflight' =
                    [inflight EXCEPT
                       ![n] = Append(Pop(inflight[n]),
                                     [call |-> "import", syncing |-> syncing,
                                      params |-> author_params(Alice, proposal)])]
               /\ ev' = ev
          ELSE /\ pc' = [pc EXCEPT ![n] = "sleeping"]
               /\ inflight' = Return(n)
               /\ ev' = [op |-> "author_block", node |-> n, syncing |-> syncing,
                         step |-> step, result |-> "Err", submitted |-> None]
  /\ UNCHANGED <<role, ledger, notifs, gossip, announced, ticks, gadget>>

\* The inner import returns, and the loop goes to sleep.
ImportReturns(n, fail) ==
  /\ pc[n] = "importing"
  /\ LET call == Last(inflight[n])
         inner == LedgerImport(ledger[n], call.params, fail)
     IN /\ ledger' = [ledger EXCEPT ![n] = inner.ledger]
        /\ notifs' = Notify(n, inner.notification)
        /\ announced' = IF inner.result = "Imported"
                          THEN announced \cup {WireBlock(call.params)}
                          ELSE announced
        /\ ev' = [op |-> "author_block", node |-> n, syncing |-> call.syncing,
                  step |-> "ok",
                  result |-> IF inner.result = "Err" THEN "Err" ELSE "Ok",
                  submitted |-> Some(call.params)]
  /\ pc' = [pc EXCEPT ![n] = "sleeping"]
  /\ inflight' = Return(n)
  /\ UNCHANGED <<role, gossip, ticks, gadget>>

(***************************************************************************)
(* import_queue: BasicQueue asks check_block, then runs the verifier, then  *)
(* the decorated import, whose inner import is the client.                 *)
(***************************************************************************)
\* check_block of the decorated import: the question goes to the inner
\* import as it is, and its answer comes back.
check_block(L, header) == LedgerCheck(L, Hash(header), header.parent_hash)

\* What the queue reports of a block it stopped at check_block: the
\* verifier and import_block were not called.
NotVerified == [ok |-> FALSE, called |-> FALSE]

\* A variant of import_queue with a slip: the two public keys of the
\* configuration are handed to the wrong components.
queue_import_keys_swapped(L, origin, header, justification, body, fail) ==
  LET checked == check_block(L, header)
      verified == verify(finality_authority, origin, header, justification, body)
  IN
  IF checked /= "Imported"
    THEN [checked |-> checked, verified |-> NotVerified, delegated |-> None,
          result |-> checked, ledger |-> L, notification |-> None]
  ELSE IF ~verified.ok
    THEN [checked |-> checked, verified |-> verified, delegated |-> None,
          result |-> "Rejected", ledger |-> L, notification |-> None]
    ELSE
      LET decorated == import_block(block_authority, verified.import_params)
          inner == LedgerImport(L, decorated.block, fail)
      IN
      IF decorated.panic
        THEN [checked |-> checked, verified |-> verified, delegated |-> None,
              result |-> "Panic", ledger |-> L, notification |-> None]
        ELSE [checked |-> checked, verified |-> verified,
              delegated |-> Some(decorated.block),
              result |-> inner.result, ledger |-> inner.ledger,
              notification |-> inner.notification]

queue_import(L, origin, header, justification, body, fail) ==
  LET checked == check_block(L, header)
      verified == verify(block_authority, origin, header, justification, body)
  IN
  IF checked /= "Imported"
    THEN [checked |-> checked, verified |-> NotVerified, delegated |-> None,
          result |-> checked, ledger |-> L, notification |-> None]
  ELSE IF ~verified.ok
    THEN [checked |-> checked, verified |-> verified, delegated |-> None,
          result |-> "Rejected", ledger |-> L, notification |-> None]
    ELSE
      LET decorated == import_block(finality_authority, verified.import_params)
          inner == LedgerImport(L, decorated.block, fail)
      IN
      IF decorated.panic
        THEN [checked |-> checked, verified |-> verified, delegated |-> None,
              result |-> "Panic", ledger |-> L, notification |-> None]
        ELSE [checked |-> checked, verified |-> verified,
              delegated |-> Some(decorated.block),
              result |-> inner.result, ledger |-> inner.ledger,
              notification |-> inner.notification]

QueueImport(n, origin, header, justification, body, fail) ==
  /\ LET r == queue_import(ledger[n], origin, header, justification, body, fail) IN
       /\ ledger' = [ledger EXCEPT ![n] = r.ledger]
       /\ notifs' = Notify(n, r.notification)
       /\ ev' = [op |-> "queue_import", node |-> n, origin |-> origin,
                 header |-> header, justification |-> justification,
                 body |-> body, fail |-> fail, checked |-> r.checked,
                 verified |-> r.verified,
                 delegated |-> r.delegated, result |-> r.result]
  /\ UNCHANGED <<inflight, role, gossip, announced, pc, ticks, gadget>>

(***************************************************************************)
(* start_singleton_finality_gadget                                         *)
(***************************************************************************)
\* Variants of the listener's closure with a slip: the proof is not
\* verified; a failed finalization is unwrapped, which panics.
listener_unverified(authority, L, payload, fail) ==
  LET decoded == DecodeMessage(payload) IN
  IF ~IsSome(decoded)
    THEN [log |-> "Failed to decode gossip message", finalize |-> None,
          result |-> "None", ledger |-> L, alive |-> TRUE]
    ELSE
      LET message == Unwrap(decoded)
          call == [hash |-> message.block_hash,
                   justification |-> Some(Encode(message.proof))]
          fin == LedgerFinalize(L, call.hash, call.justification, fail)
      IN [log |-> IF fin.result = "Err" THEN "Failed finalizing block" ELSE "",
          finalize |-> Some(call), result |-> fin.result,
          ledger |-> fin.ledger, alive |-> TRUE]

listener_unwrap(authority, L, payload, fail) ==
  LET decoded == DecodeMessage(payload) IN
  IF ~IsSome(decoded)
    THEN [log |-> "Failed to decode gossip message", finalize |-> None,
          result |-> "None", ledger |-> L, alive |-> TRUE]
    ELSE
      LET message == Unwrap(decoded) IN
      IF SigVerify(authority, message.block_hash, message.proof)
        THEN
          LET call == [hash |-> message.block_hash,
                       justification |-> Some(Encode(message.proof))]
              fin == LedgerFinalize(L, call.hash, call.justification, fail)
          IN [log |-> "", finalize |-> Some(call), result |-> fin.result,
              ledger |-> fin.ledger, alive |-> fin.result /= "Err"]
        ELSE [log |-> "Failed verifying finality proof", finalize |-> None,
              result |-> "None", ledger |-> L, alive |-> TRUE]

\* A variant of the listener's closure with a slip: the call counts as
\* failed unless the block is the last finalized one afterwards.
listener_checks_head(authority, L, payload, fail) ==
  LET decoded == DecodeMessage(payload) IN
  IF ~IsSome(decoded)
    THEN [log |-> "Failed to decode gossip message", finalize |-> None,
          result |-> "None", ledger |-> L, alive |-> TRUE]
    ELSE
      LET message == Unwrap(decoded) IN
      IF SigVerify(authority, message.block_hash, message.proof)
        THEN
          LET call == [hash |-> message.block_hash,
                       justification |-> Some(Encode(message.proof))]
              fin == LedgerFinalize(L, call.hash, call.justification, fail)
              failed == fin.result = "Err" \/ fin.ledger.finalized /= call.hash
          IN [log |-> IF failed THEN "Failed finalizing block" ELSE "",
              finalize |-> Some(call),
              result |-> IF failed THEN "Err" ELSE "Ok",
              ledger |-> fin.ledger, alive |-> TRUE]
        ELSE [log |-> "Failed verifying finality proof", finalize |-> None,
              result |-> "None", ledger |-> L, alive |-> TRUE]

\* A variant of the listener's closure with a slip: a message that does not
\* decode or does not verify ends the stream.
listener_strict(authority, L, payload, fail) ==
  LET decoded == DecodeMessage(payload) IN
  IF ~IsSome(decoded)
    THEN [log |-> "Failed to decode gossip message", finalize |-> None,
          result |-> "None", ledger |-> L, alive |-> FALSE]
    ELSE
      LET message == Unwrap(decoded) IN
      IF SigVerify(authority, message.block_hash, message.proof)
        THEN
          LET call == [hash |-> message.block_hash,
                       justification |-> Some(Encode(message.proof))]
              fin == LedgerFinalize(L, call.hash, call.justification, fail)
          IN [log |-> IF fin.result = "Err" THEN "Failed finalizing block" ELSE "",
              finalize |-> Some(call), result |-> fin.result,
              ledger |-> fin.ledger, alive |-> TRUE]
        ELSE [log |-> "Failed verifying finality proof", finalize |-> None,
              result |-> "None", ledger |-> L, alive |-> FALSE]

\* The listener's closure on one notification of the topic's stream.  It
\* ends in future::ready(()) on every path: the stream goes on (alive).
listener(authority, L, payload, fail) ==
  LET decoded == DecodeMessage(payload) IN
  IF ~IsSome(decoded)
    THEN [log |-> "Failed to decode gossip message", finalize |-> None,
          result |-> "None", ledger |-> L, alive |-> TRUE]
    ELSE
      LET message == Unwrap(decoded) IN
      IF SigVerify(authority, message.block_hash, message.proof)
        THEN
          LET call == [hash |-> message.block_hash,
                       justification |-> Some(Encode(message.proof))]
              fin == LedgerFinalize(L, call.hash, call.justification, fail)
          IN [log |-> IF fin.result = "Err" THEN "Failed finalizing block" ELSE "",
              finalize |-> Some(call), result |-> fin.result,
              ledger |-> fin.ledger, alive |-> TRUE]
        ELSE [log |-> "Failed verifying finality proof", finalize |-> None,
              result |-> "None", ledger |-> L, alive |-> TRUE]

\* Variants of the producer's closure with a slip: the message is not
\* flooded; a failed finalization is unwrapped, which panics.
producer_silent(authority_key, L, notification, fail) ==
  IF notification.is_new_best
    THEN
      LET proof_encoded == Encode(Sign(authority_key, notification.hash))
          fin == LedgerFinalize(L, notification.hash, Some(proof_encoded), fail)
      IN [calls |-> <<"finalize_block">>, flooded |-> None,
          finalize |-> Some([hash |-> notification.hash,
                             justification |-> Some(proof_encoded)]),
          log |-> IF fin.result = "Err" THEN "Failed finalizing block" ELSE "",
          result |-> fin.result, ledger |-> fin.ledger, alive |-> TRUE]
    ELSE [calls |-> <<>>, flooded |-> None, finalize |-> None, log |-> "",
          result |-> "None",
          ledger |-> L, alive |-> TRUE]

producer_unwrap(authority_key, L, notification, fail) ==
  IF notification.is_new_best
    THEN
      LET proof == Sign(authority_key, notification.hash)
          proof_encoded == Encode(proof)
          message == [block_hash |-> notification.hash, proof |-> proof]
          fin == LedgerFinalize(L, notification.hash, Some(proof_encoded), fail)
      IN [calls |-> <<"gossip_message", "finalize_block">>,
          flooded |-> Some(EncodeMessage(message)),
          finalize |-> Some([hash |-> notification.hash,
                             justification |-> Some(proof_encoded)]),
          log |-> "", result |-> fin.result, ledger |-> fin.ledger,
          alive |-> fin.result /= "Err"]
    ELSE [calls |-> <<>>, flooded |-> None, finalize |-> None, log |-> "",
          result |-> "None",
          ledger |-> L, alive |-> TRUE]

\* A variant of the producer's closure with a slip: is_new_best is not
\* looked at.
producer_every_import(authority_key, L, notification, fail) ==
  LET proof == Sign(authority_key, notification.hash)
      proof_encoded == Encode(proof)
      message == [block_hash |-> notification.hash, proof |-> proof]
      fin == LedgerFinalize(L, notification.hash, Some(proof_encoded), fail)
  IN [calls |-> <<"gossip_message", "finalize_block">>,
      flooded |-> Some(EncodeMessage(message)),
      finalize |-> Some([hash |-> notification.hash,
                         justification |-> Some(proof_encoded)]),
      log |-> IF fin.result = "Err" THEN "Failed finalizing block" ELSE "",
      result |-> fin.result, ledger |-> fin.ledger, alive |-> TRUE]

\* A variant of the producer's closure with a slip: the block is finalized
\* first and the message is flooded only once that has succeeded.
producer_finalize_first(authority_key, L, notification, fail) ==
  IF notification.is_new_best
    THEN
      LET proof == Sign(authority_key, notification.hash)
          proof_encoded == Encode(proof)
          message == [block_hash |-> notification.hash, proof |-> proof]
          fin == LedgerFinalize(L, notification.hash, Some(proof_encoded), fail)
      IN IF fin.result = "Err"
           THEN [calls |-> <<"finalize_block">>, flooded |-> None,
                 finalize |-> Some([hash |-> notification.hash,
                                    justification |-> Some(proof_encoded)]),
                 log |-> "Failed finalizing block",
                 result |-> fin.result, ledger |-> fin.ledger, alive |-> TRUE]
           ELSE [calls |-> <<"finalize_block", "gossip_message">>,
                 flooded |-> Some(EncodeMessage(message)),
                 finalize |-> Some([hash |-> notification.hash,
                                    justification |-> Some(proof_encoded)]),
                 log |-> "",
                 result |-> fin.result, ledger |-> fin.ledger, alive |-> TRUE]
    ELSE [calls |-> <<>>, flooded |-> None, finalize |-> None, log |-> "",
          result |-> "None", ledger |-> L, alive |-> TRUE]

\* The producer's closure on one import notification; it too ends in
\* future::ready(()) on every path.
producer(authority_key, L, notification, fail) ==
  IF notification.is_new_best
    THEN
      LET proof == Sign(authority_key, notification.hash)
          proof_encoded == Encode(proof)
          message == [block_hash |-> notification.hash, proof |-> proof]
          fin == LedgerFinalize(L, notification.hash, Some(proof_encoded), fail)
      IN [calls |-> <<"gossip_message", "finalize_block">>,
          flooded |-> Some(EncodeMessage(message)),
          finalize |-> Some([hash |-> notification.hash,
                             justification |-> Some(proof_encoded)]),
          log |-> IF fin.result = "Err" THEN "Failed finalizing block" ELSE "",
          result |-> fin.result, ledger |-> fin.ledger, alive |-> TRUE]
    ELSE [calls |-> <<>>, flooded |-> None, finalize |-> None, log |-> "",
          result |-> "None",
          ledger |-> L, alive |-> TRUE]

\* The first poll of the gadget's future: the gossip engine is built, the
\* listener subscribes to the topic and the producer to the stream of
\* import notifications.  What was imported before is not notified.
GadgetStart(n) ==
  /\ gadget[n] = "created"
  /\ gadget' = [gadget EXCEPT ![n] = "running"]
  /\ UNCHANGED <<inflight, role, ledger, notifs, gossip, announced, pc, ticks, ev>>

\* A closure that does not return (a panic) takes the gadget task with it.
After(n, alive) ==
  IF alive THEN gadget ELSE [gadget EXCEPT ![n] = "exited"]

Listener(n, payload, fail) ==
  /\ gadget[n] = "running"
  /\ LET r == listener(finality_authority, ledger[n], payload, fail) IN
       /\ ledger' = [ledger EXCEPT ![n] = r.ledger]
       /\ gadget' = After(n, r.alive)
       /\ ev' = [op |-> "listener", node |-> n, payload |-> payload,
                 fail |-> fail, last_finalized |-> ledger[n].finalized, finalize |-> r.finalize, result |-> r.result,
                 log |-> r.log]
  /\ UNCHANGED <<inflight, role, notifs, gossip, announced, pc, ticks>>

Producer(n, fail) ==
  /\ gadget[n] = "running"
  /\ role[n].attester
  /\ notifs[n] /= <<>>
  /\ LET r == producer(Bob, ledger[n], Head(notifs[n]), fail) IN
       /\ ledger' = [ledger EXCEPT ![n] = r.ledger]
       /\ gossip' = IF IsSome(r.flooded)
                      THEN gossip \cup {Unwrap(r.flooded)}
                      ELSE gossip
       /\ gadget' = After(n, r.alive)
       /\ ev' = [op |-> "producer", node |-> n, notification |-> Head(notifs[n]),
                 fail |-> fail, last_finalized |-> ledger[n].finalized,
                 calls |-> r.calls, flooded |-> r.flooded,
                 finalize |-> r.finalize, result |-> r.result, log |-> r.log]
  /\ notifs' = [notifs EXCEPT ![n] = Tail(notifs[n])]
  /\ UNCHANGED <<inflight, role, announced, pc, ticks>>

\* select!: the task returns as soon as one of the three futures completes.
\* Without the key the producer is future::pending and never completes;
\* with it, for_each completes when the stream has ended and every
\* notification in it has been handled.
GadgetFutures == {"gossip_engine", "listener", "producer"}

\* A variant of the select! with a slip: the producer of a node without
\* the key is a future that completes.
GadgetExit_no_pending(n, which) ==
  /\ gadget[n] = "running"
  /\ which = "producer" => notifs[n] = <<>>
  /\ gadget' = [gadget EXCEPT ![n] = "exited"]
  /\ notifs' = [notifs EXCEPT ![n] = <<>>]
  /\ ev' = [op |-> "exit", node |-> n, which |-> which]
  /\ UNCHANGED <<inflight, role, ledger, gossip, announced, pc, ticks>>

GadgetExit(n, which) ==
  /\ gadget[n] = "running"
  /\ which = "producer" => (role[n].attester /\ notifs[n] = <<>>)
  /\ gadget' = [gadget EXCEPT ![n] = "exited"]
  /\ notifs' = [notifs EXCEPT ![n] = <<>>]
  /\ ev' = [op |-> "exit", node |-> n, which |-> which]
  /\ UNCHANGED <<inflight, role, ledger, gossip, announced, pc, ticks>>

(***************************************************************************)
(* The rest of the network.  Every authority node is started with Alice's  *)
(* pair and every attester with Bob's (service.rs), so nodes outside the   *)
(* model running this same code can announce sealed blocks and flood       *)
(* attestations for blocks they have imported.                             *)
(***************************************************************************)
AnnouncedHashes == {Hash(b.header) : b \in announced}

ForeignContent == Content("B") + 1
ForeignBlocks == {b \in announced : b.header.extrinsics_root = ForeignContent}

\* The authoring loop of a node outside the model, started from genesis,
\* seals its first block.
ForeignBlock ==
  /\ LET proposal == propose_block(best_chain(GenesisLedger), ForeignContent, "ok")
     IN announced' = announced \cup {WireBlock(author_params(Alice, proposal))}
  /\ announced' /= announced
  /\ UNCHANGED <<inflight, role, ledger, notifs, gossip, pc, ticks, gadget, ev>>

\* The producer of an attester outside the model floods its attestation of
\* a foreign block that became its best block.
ForeignAttest(b) ==
  /\ b \in ForeignBlocks
  /\ gossip' = gossip \cup
       {Unwrap(producer(Bob, GenesisLedger,
                        [hash |-> Hash(b.header), is_new_best |-> TRUE],
                        FALSE).flooded)}
  /\ gossip' /= gossip
  /\ UNCHANGED <<inflight, role, ledger, notifs, announced, pc, ticks, gadget, ev>>

\* Justifications a peer may send along with a block of post hash h: none,
\* one a ledger stores for it, one signed with a key other than Bob's.
SyncJustifications(h) ==
  {None, Some(Encode(Sign(Alice, h)))}
    \cup {BlockOf(ledger[m], h).justification :
            m \in {x \in Node : h \in Known(ledger[x])}}

\* Headers a peer may send: the announced ones, and those with the seal cut.
SyncHeaders ==
  {b.header : b \in announced}
    \cup {[b.header EXCEPT !.digest = Pop(b.header.digest)] : b \in announced}

\* Payloads that may arrive on the topic: those flooded, these with the last
\* byte flipped, cut short or followed by one more byte, and messages for an
\* announced block signed with Alice's key.
Extended(p) == Append(p, JunkByte)
Flipped(p) == [p EXCEPT ![Len(p)] = JunkByte]

TopicPayloads ==
  gossip
    \cup {Flipped(p) : p \in gossip}
    \cup {Pop(p) : p \in gossip}
    \cup {Extended(p) : p \in gossip}
    \cup {EncodeMessage([block_hash |-> h, proof |-> Sign(Alice, h)]) :
            h \in AnnouncedHashes}

(***************************************************************************)
(* The network of nodes.                                                   *)
(***************************************************************************)
\* A authors and attests, B only runs the gadget's consumer.
NetworkRoles == [n \in Node |-> [author |-> n = "A", attester |-> n = "A"]]

InitWith(roles) ==
  /\ role = roles
  /\ ledger = [n \in Node |-> GenesisLedger]
  /\ notifs = [n \in Node |-> <<>>]
  /\ gossip = {}
  /\ announced = {}
  /\ pc = [n \in Node |-> "ready"]
  /\ ticks = 0
  /\ gadget = [n \in Node |-> "created"]
  /\ ev = [op |-> "start"]
  /\ inflight = [n \in Node |-> <<>>]

Init == InitWith(NetworkRoles)

\* Inputs of the honest network: announced blocks with the justification a
\* ledger stores for them (or none), and the payloads that were flooded.
StoredJustifications(h) ==
  {None} \cup {BlockOf(ledger[m], h).justification :
                 m \in {x \in Node : h \in Known(ledger[x])}}

\* The ledger's own failure is drawn only for a block that reaches the
\* inner import; BasicQueue stops the others at check_block.
Reaches(n, header) == check_block(ledger[n], header) = "Imported"

\* The network with tampered blocks and payloads.
Next ==
  \/ \E n \in Node : ticks < MaxTicks /\ StartTick(n, FALSE)
  \/ \E n \in Node, fail \in BOOLEAN : AuthorBlock(n, "ok", fail)
  \/ \E n \in Node : GadgetStart(n)
  \/ \E n \in Node : Sleep(n)
  \/ \E n \in Node, header \in SyncHeaders, fail \in BOOLEAN :
       \E justification \in SyncJustifications(Hash(header)) :
         /\ fail => (Reaches(n, header) /\ header.digest /= <<>>)
         /\ QueueImport(n, "NetworkBroadcast", header, justification,
                        Some(<<header.extrinsics_root>>), fail)
  \/ \E n \in Node, payload \in TopicPayloads, fail \in BOOLEAN :
       /\ fail => payload \in gossip
       /\ Listener(n, payload, fail)
  \/ \E n \in Node, fail \in BOOLEAN : Producer(n, fail)
  \/ \E n \in Node, which \in GadgetFutures : GadgetExit(n, which)

Spec == Init /\ [][Next]_vars

\* The network with a second authority and a second attester outside the
\* model, which makes forks and attestations of competing blocks.
NextFork ==
  \/ \E n \in Node : ticks < MaxTicks /\ StartTick(n, FALSE)
  \/ \E n \in Node, fail \in BOOLEAN : AuthorBlock(n, "ok", fail)
  \/ \E n \in Node : GadgetStart(n)
  \/ \E n \in Node : Sleep(n)
  \/ ForeignBlock
  \/ \E b \in ForeignBlocks : ForeignAttest(b)
  \/ \E n \in Node, b \in announced, fail \in BOOLEAN :
       \E justification \in StoredJustifications(Hash(b.header)) :
         /\ fail => Reaches(n, b.header)
         /\ QueueImport(n, "NetworkBroadcast", b.header, justification, b.body, fail)
  \/ \E n \in Node, payload \in gossip, fail \in BOOLEAN :
       Listener(n, payload, fail)
  \/ \E n \in Node, fail \in BOOLEAN : Producer(n, fail)
  \/ \E n \in Node, which \in GadgetFutures : GadgetExit(n, which)

SpecFork == Init /\ [][NextFork]_vars

(***************************************************************************)
(* The authoring loop on a node that holds the block-authority key only.   *)
(***************************************************************************)
AuthorRoles == [n \in Node |-> [author |-> n = "A", attester |-> FALSE]]

InitAuthor == InitWith(AuthorRoles)

NextAuthor ==
  \/ \E n \in Node, syncing \in BOOLEAN :
       ticks < MaxAuthorTicks /\ StartTick(n, syncing)
  \/ \E n \in Node, step \in ProposeSteps, fail \in BOOLEAN :
       /\ fail => step = "ok"
       /\ AuthorBlock(n, step, fail)
  \/ \E n \in Node : Sleep(n)

SpecAuthor == InitAuthor /\ [][NextAuthor]_vars

(***************************************************************************)
(* The import queue on one block, drawn from the headers, justifications,  *)
(* origins and bodies a peer can send for a child of genesis.              *)
(***************************************************************************)
WithSeal(header, id, data) ==
  [header EXCEPT !.digest = Append(header.digest, Seal(id, data))]

\* Unsealed headers: with an empty digest, and with a pre-runtime item.
BaseHeaders ==
  {[parent_hash |-> GenesisHash, number |-> 1, extrinsics_root |-> 1, digest |-> d] :
     d \in {<<>>, <<PreRuntime(OtherEngineId, <<PadByte>>)>>}}

\* The signatures a seal or a justification over hash h may hold.
Signatures(h) ==
  {Sign(Alice, h), Sign(Bob, h), Sign(Alice, ZeroHash), Sign(Bob, ZeroHash),
   Corrupt(Sign(Alice, h)), Corrupt(Sign(Bob, h))}

\* The byte strings a seal or a justification over hash h may hold: encoded
\* signatures, these followed by one more byte, and strings that are too
\* short.
ByteStrings(h) ==
  {Encode(sig) : sig \in Signatures(h)}
    \cup {Extended(Encode(sig)) : sig \in {Sign(Alice, h), Sign(Bob, h)}}
    \cup {Pop(Encode(sig)) : sig \in {Sign(Alice, h), Sign(Bob, h)}}
    \cup {<<>>}

SealedOnce(base) ==
  {WithSeal(base, id, data) :
     id \in {SINGLETON_ENGINE_ID, OtherEngineId}, data \in ByteStrings(Hash(base))}

\* A header sealed by Alice, and sealed by Alice once more over that.
SealedTwice(base) ==
  LET once == WithSeal(base, SINGLETON_ENGINE_ID, Encode(Sign(Alice, Hash(base))))
  IN {WithSeal(once, SINGLETON_ENGINE_ID, Encode(Sign(Alice, Hash(once))))}

\* A sealed header followed by an item that is no seal.
SealedThenItem(base) ==
  LET once == WithSeal(base, SINGLETON_ENGINE_ID, Encode(Sign(Alice, Hash(base))))
  IN {[once EXCEPT !.digest = Append(once.digest, PreRuntime(OtherEngineId, <<PadByte>>))]}

QueueHeaders ==
  BaseHeaders \cup UNION {SealedOnce(base) \cup SealedTwice(base) \cup SealedThenItem(base) :
                            base \in BaseHeaders}

QueueJustifications(h) == {None} \cup {Some(bytes) : bytes \in ByteStrings(h)}

QueueOrigins == {"NetworkBroadcast", "NetworkInitialSync"}
QueueBodies == {None, Some(<<1>>)}

NextQueue ==
  \E header \in QueueHeaders, origin \in QueueOrigins, body \in QueueBodies,
     fail \in BOOLEAN :
    \E justification \in QueueJustifications(Hash(header)) :
      /\ ev.op = "start"
      /\ QueueImport("B", origin, header, justification, body, fail)

SpecQueue == Init /\ [][NextQueue]_vars

(***************************************************************************)
(* Properties of the finality gadget's consumer.                           *)
(***************************************************************************)
\* The last handler was the listener's closure, on node n or on any node.
ListenerRan == ev.op = "listener"
ProducerRan == ev.op = "producer"
\* The import queue has handled a block that passed check_block: the
\* verifier was called on it.
QueueRan == ev.op = "queue_import" /\ ev.checked = "Imported"
AuthorRan == ev.op = "author_block"

\* C1: whatever payload arrives on the topic, the listener calls finalize
\* for a hash h only if the payload decodes as a finality message whose
\* block_hash is h and whose proof verifies over h under the finality
\* authority's key; a payload that does not decode, or whose signature was
\* corrupted, brings no finalize call.
C1_OnlyVerifiedMessagesFinalize ==
  ListenerRan =>
    LET decoded == DecodeMessage(ev.payload)
        valid == /\ IsSome(decoded)
                 /\ Unwrap(decoded).proof =
                      Sign(finality_authority, Unwrap(decoded).block_hash)
    IN /\ IsSome(ev.finalize) =>
            /\ valid
            /\ Unwrap(ev.finalize).hash = Unwrap(decoded).block_hash
       /\ ~valid =>
            /\ ev.finalize = None
            /\ ev.result = "None"

\* The listener has just dropped a flooded message whose last signature
\* byte was flipped, for a block the node holds and has not finalized.
C1_Witness ==
  /\ ListenerRan
  /\ \E p \in gossip : ev.payload = Flipped(p)
  /\ IsSome(DecodeMessage(ev.payload))
  /\ ev.finalize = None
  /\ Unwrap(DecodeMessage(ev.payload)).block_hash
       \in Known(ledger[ev.node]) \ FinalizedSet(ledger[ev.node])

(***************************************************************************)
(* Properties of the import queue: the verifier and the decorated import.  *)
(***************************************************************************)
\* The header the queue was given, without its last digest item.
Unsealed(header) == [header EXCEPT !.digest = Pop(header.digest)]

\* The positions of the protocol's seals in a digest.
ProtocolSeals(digest) ==
  {i \in 1..Len(digest) :
     digest[i].kind = "Seal" /\ digest[i].engine = SINGLETON_ENGINE_ID}

\* The last digest item of the header is a seal of the protocol that holds
\* the block authority's signature over the rest of the header.
WellSealed(header) ==
  /\ header.digest /= <<>>
  /\ Last(header.digest).kind = "Seal"
  /\ Last(header.digest).engine = SINGLETON_ENGINE_ID
  /\ Len(Last(header.digest).data) >= SigLen
  /\ SubSeq(Last(header.digest).data, 1, SigLen) =
       Sign(block_authority, Hash(Unsealed(header))).raw

\* The justification bytes start with the finality authority's signature
\* over hash h.
Justifies(justification, h) ==
  /\ IsSome(justification)
  /\ Len(Unwrap(justification)) >= SigLen
  /\ SubSeq(Unwrap(justification), 1, SigLen) = Sign(finality_authority, h).raw

\* C3: when the justification of a verified import request decodes as a
\* signature that verifies over the request's post-seal hash under the
\* finality authority's key, the decorated import hands the inner import a
\* request marked finalized whose justification is the canonical encoding
\* of that signature.
C3_ValidJustificationFinalizes ==
  (QueueRan /\ ev.verified.ok
     /\ Justifies(ev.justification, Unwrap(ev.verified.import_params.post_hash)))
  => /\ IsSome(ev.delegated)
     /\ Unwrap(ev.delegated).finalized
     /\ Unwrap(ev.delegated).justification =
          Some(Sign(finality_authority, Hash(ev.header)).raw)
     /\ Len(Unwrap(Unwrap(ev.delegated).justification)) = SigLen

\* A block arrived with the signature followed by one more byte: it was
\* imported as final, with the signature alone as its justification.
C3_Witness ==
  /\ QueueRan
  /\ ev.justification = Some(Extended(Encode(Sign(finality_authority, Hash(ev.header)))))
  /\ IsSome(ev.delegated)
  /\ Unwrap(ev.delegated).finalized
  /\ Unwrap(ev.delegated).justification /= ev.justification
  /\ ledger[ev.node].finalized = Hash(ev.header)

\* C4: when the justification of a verified import request is present and
\* does not decode, or does not verify under the finality authority's key,
\* the inner import is still called, once, with finalized unset, its result
\* is the result of the import, and nothing is finalized.
C4_BadJustificationImportsUnfinalized ==
  (QueueRan /\ ev.verified.ok /\ IsSome(ev.justification)
     /\ ~Justifies(ev.justification, Unwrap(ev.verified.import_params.post_hash)))
  => /\ IsSome(ev.delegated)
     /\ ~Unwrap(ev.delegated).finalized
     /\ ev.result \in {"Imported", "Err"}
     /\ ledger[ev.node].finalized = GenesisHash

\* A block arrived with a justification signed with the block authority's
\* key: it was imported, and it is not final.
C4_Witness ==
  /\ QueueRan
  /\ ev.justification = Some(Encode(Sign(block_authority, Hash(ev.header))))
  /\ IsSome(ev.delegated)
  /\ ev.result = "Imported"
  /\ Hash(ev.header) \in Known(ledger[ev.node]) \ FinalizedSet(ledger[ev.node])

\* The four rejections of the verifier, in the order the checks are made,
\* and the rejection a header meets (0 when it meets none).
Rejections ==
  <<"Unsealed header", "Header seal for wrong engine",
    "Header with invalid seal", "Invalid seal signature.">>

FirstFailure(header) ==
  IF header.digest = <<>> \/ Last(header.digest).kind /= "Seal" THEN 1
  ELSE IF Last(header.digest).engine /= SINGLETON_ENGINE_ID THEN 2
  ELSE IF Len(Last(header.digest).data) < SigLen THEN 3
  ELSE IF ~WellSealed(header) THEN 4
  ELSE 0

\* C5: a header whose last digest item is a seal of the protocol holding
\* the block authority's signature over the hash of the header without that
\* seal is accepted, and the import request has the origin of the call, the
\* header without the seal, one post-digest that decodes to the signature
\* of the seal, the hash of the sealed header as post hash, the
\* justification and the body of the call, finalized unset, the longest
\* chain as fork choice, and no auxiliary cache.
C5_AcceptedRequest ==
  (QueueRan /\ WellSealed(ev.header)) =>
    /\ ev.verified.ok
    /\ LET request == ev.verified.import_params IN
         /\ request.origin = ev.origin
         /\ request.header = Unsealed(ev.header)
         /\ Len(request.post_digests) = 1
         /\ request.post_digests[1].kind = "Seal"
         /\ request.post_digests[1].engine = SINGLETON_ENGINE_ID
         /\ Decode(request.post_digests[1].data) =
              Decode(Last(ev.header.digest).data)
         /\ Decode(request.post_digests[1].data) =
              Some(Sign(block_authority, Hash(request.header)))
         /\ request.post_hash = Some(Hash(ev.header))
         /\ request.post_hash /= Some(Hash(request.header))
         /\ request.justification = ev.justification
         /\ request.body = ev.body
         /\ ~request.finalized
         /\ request.fork_choice = Some("LongestChain")
         /\ request.storage_changes = None
    /\ ev.verified.cache = None

\* A sealed header that came with a body and a justification was accepted.
C5_Witness ==
  /\ QueueRan
  /\ WellSealed(ev.header)
  /\ ev.verified.ok
  /\ IsSome(ev.body)
  /\ IsSome(ev.justification)
  /\ ev.origin = "NetworkInitialSync"

\* C6: a header is rejected with the message of the first check it fails,
\* the checks being: there is a seal (the last digest item), its engine is
\* the protocol's, its payload decodes as a signature, the signature
\* verifies; the four messages differ from one another, a rejected header
\* gives no import request, and a header that fails no check is accepted.
C6_RejectionsInOrder ==
  /\ \A i, j \in 1..4 : i /= j => Rejections[i] /= Rejections[j]
  /\ QueueRan =>
       LET failure == FirstFailure(ev.header) IN
       IF failure = 0
         THEN ev.verified.ok
         ELSE /\ ~ev.verified.ok
              /\ ev.verified.err = Rejections[failure]
              /\ ev.delegated = None
              /\ ev.result = "Rejected"
              /\ ledger[ev.node] = GenesisLedger

\* A header whose seal is of another engine and holds too few bytes was
\* rejected for the engine.
C6_Witness ==
  /\ QueueRan
  /\ ev.header.digest /= <<>>
  /\ Last(ev.header.digest).kind = "Seal"
  /\ Last(ev.header.digest).engine /= SINGLETON_ENGINE_ID
  /\ ~IsSome(Decode(Last(ev.header.digest).data))
  /\ ev.verified.err = "Header seal for wrong engine"

\* C7, as the specification states it: an accepted header held exactly one
\* seal of the protocol, and the header of the import request holds none.
C7_ExactlyOneProtocolSeal ==
  (QueueRan /\ ev.verified.ok) =>
    /\ Cardinality(ProtocolSeals(ev.header.digest)) = 1
    /\ ProtocolSeals(ev.verified.import_params.header.digest) = {}

\* C7: the last digest item of an accepted header is a seal of the
\* protocol; the header of the import request is the accepted header
\* without that one item, which is the request's only post-digest; the
\* digest items before it are not looked at, so the request's header holds
\* no seal of the protocol exactly when the accepted header held one.
C7_LastSealRemoved ==
  (QueueRan /\ ev.verified.ok) =>
    LET request == ev.verified.import_params IN
    /\ Len(ev.header.digest) \in ProtocolSeals(ev.header.digest)
    /\ request.header = Unsealed(ev.header)
    /\ Len(request.post_digests) = 1
    /\ ProtocolSeals(request.header.digest) =
         ProtocolSeals(ev.header.digest) \ {Len(ev.header.digest)}
    /\ ProtocolSeals(request.header.digest) = {}
         <=> Cardinality(ProtocolSeals(ev.header.digest)) = 1

\* A header the block authority sealed twice was accepted: the header of
\* the import request still holds the first seal.
C7_Witness ==
  /\ QueueRan
  /\ ev.verified.ok
  /\ Cardinality(ProtocolSeals(ev.header.digest)) = 2
  /\ ProtocolSeals(ev.verified.import_params.header.digest) /= {}
  /\ ev.result = "Imported"

(***************************************************************************)
(* Properties of the authoring loop.                                       *)
(***************************************************************************)
\* What C8 says of an import request the loop submits: its origin is Own,
\* its fork choice the longest chain, and its only post-digest a seal of
\* the protocol that verifies under the block authority's key over the hash
\* of the request's header.
OwnSealedRequest(request) ==
  /\ request.origin = "Own"
  /\ request.fork_choice = Some("LongestChain")
  /\ Len(request.post_digests) = 1
  /\ request.post_digests[1].kind = "Seal"
  /\ request.post_digests[1].engine = SINGLETON_ENGINE_ID
  /\ IsSome(Decode(request.post_digests[1].data))
  /\ Unwrap(Decode(request.post_digests[1].data)) =
       Sign(block_authority, Hash(request.header))
  /\ request.post_hash =
       Some(Hash([request.header EXCEPT
                    !.digest = request.header.digest \o request.post_digests]))

\* C8, as the specification states it: every tick of the loop submits an
\* import request, with the origin, the fork choice and the seal above.
C8_OneRequestPerTick ==
  AuthorRan =>
    /\ IsSome(ev.submitted)
    /\ OwnSealedRequest(Unwrap(ev.submitted))

\* C8: on a node that holds the block authority's key only, a tick of the
\* loop submits one import request when the proposal succeeds (best chain
\* selected, proposer initialized, block proposed) and none when it fails;
\* every request submitted has the origin, the fork choice and the seal
\* above, whether the node is syncing or not.
C8_OneRequestPerProposal ==
  AuthorRan =>
    /\ role[ev.node].author /\ ~role[ev.node].attester
    /\ IsSome(ev.submitted) <=> ev.step = "ok"
    /\ IsSome(ev.submitted) => OwnSealedRequest(Unwrap(ev.submitted))
    /\ ev.step /= "ok" => ev.result = "Err"

\* The second tick of the loop submitted a request for a block of number 2.
C8_Witness ==
  /\ AuthorRan
  /\ ticks >= 2
  /\ IsSome(ev.submitted)
  /\ Unwrap(ev.submitted).header.number = 2
  /\ ev.result = "Ok"

(***************************************************************************)
(* Properties of finalization across the network.                          *)
(***************************************************************************)
\* The message the attester floods for hash h, and the finalize call that
\* the producer and the listener make for it.
MessageFor(h) ==
  EncodeMessage([block_hash |-> h, proof |-> Sign(finality_authority, h)])

FinalizeCallFor(h) ==
  Some([hash |-> h, justification |-> Some(Sign(finality_authority, h).raw)])

\* The hash of a payload that decodes.
HashOf(payload) == Unwrap(DecodeMessage(payload)).block_hash

\* The step is a handler of node n's gadget calling finalize.
FinalizeStep(n) ==
  /\ ev' /= ev
  /\ ev'.op \in {"listener", "producer"}
  /\ ev'.node = n
  /\ IsSome(ev'.finalize)

\* C9, as the specification states it: B, on receiving the message A
\* flooded for h, finalizes h (the ledger reporting no error of its own),
\* whether it has imported block h or not.
C9_RelayAlwaysFinalizes ==
  (ListenerRan /\ ev.node = "B" /\ ev.payload \in gossip /\ ~ev.fail)
    => HashOf(ev.payload) \in FinalizedSet(ledger["B"])

\* C9: A, on a new-best notification for h, floods the message for h and
\* calls finalize for h, which makes h final at A unless the ledger reports
\* an error; B, on receiving that message, verifies it and calls finalize
\* for h in every interleaving; h becomes final at B when B has imported
\* block h (and the ledger reports no error); when the message reaches B
\* before block h, the call fails, a warning is logged, and h is not final
\* at B.
C9_RelayFinalizesImportedBlocks ==
  /\ (ProducerRan /\ ev.node = "A" /\ ev.notification.is_new_best) =>
       LET h == ev.notification.hash IN
       /\ ev.flooded = Some(MessageFor(h))
       /\ MessageFor(h) \in gossip
       /\ ev.finalize = FinalizeCallFor(h)
       /\ ~ev.fail => h \in FinalizedSet(ledger["A"])
  /\ (ListenerRan /\ ev.node = "B" /\ ev.payload \in gossip) =>
       LET h == HashOf(ev.payload) IN
       /\ ev.payload = MessageFor(h)
       /\ ev.finalize = FinalizeCallFor(h)
       /\ (h \in Known(ledger["B"]) /\ ~ev.fail) =>
            /\ h \in FinalizedSet(ledger["B"])
            /\ ev.result = "Ok"
       /\ h \notin Known(ledger["B"]) =>
            /\ ev.result = "Err"
            /\ ev.log = "Failed finalizing block"
            /\ ledger["B"].finalized = ev.last_finalized
            /\ h \notin FinalizedSet(ledger["B"])

\* A's message for h has reached B before block h: B called finalize, the
\* call failed, and h is final at A and not at B.
C9_Witness ==
  /\ ListenerRan
  /\ ev.node = "B"
  /\ ev.payload \in gossip
  /\ ~ev.fail
  /\ IsSome(ev.finalize)
  /\ HashOf(ev.payload) \in FinalizedSet(ledger["A"])
  /\ HashOf(ev.payload) \notin Known(ledger["B"])

\* The step is the import queue of node n handing the inner import a
\* request that import_block has marked final.
JustifiedImportStep(n) ==
  /\ ev' /= ev
  /\ ev'.op = "queue_import"
  /\ ev'.node = n
  /\ IsSome(ev'.delegated)
  /\ Unwrap(ev'.delegated).finalized

\* C2: across every step (authored imports, queue imports, messages,
\* notifications) the finalized blocks of a node stay finalized.  When the
\* gadget calls finalize with a justification for a block that is already
\* final, or that does not descend from the last finalized block, the
\* ledger stays as it is, no error is returned or logged unless the ledger
\* reports one of its own, and the gadget goes on.  When the import queue
\* imports, with a justification that verifies, a block whose parent it
\* holds and that does not descend from the last finalized block, the
\* finalized blocks stay as
\* they are and the import is no error: the block is stored.  A block the
\* node already holds, final or not, with a justification or without, is
\* stopped at check_block as already in the chain: nothing reaches the
\* inner import and the ledger stays as it is.  An authored import carries
\* no justification and leaves the finalized blocks alone.
C2_FinalityNeverRegresses ==
  [][\A n \in Node :
       /\ FinalizedSet(ledger[n]) \subseteq FinalizedSet(ledger'[n])
       /\ (/\ FinalizeStep(n)
           /\ Unwrap(ev'.finalize).hash \in Known(ledger[n])
           /\ \/ Unwrap(ev'.finalize).hash \in FinalizedSet(ledger[n])
              \/ ~IsAncestorOrEq(ledger[n], ledger[n].finalized,
                                 Unwrap(ev'.finalize).hash))
          => /\ ledger'[n] = ledger[n]
             /\ gadget'[n] = gadget[n]
             /\ ~ev'.fail => (ev'.result = "Ok" /\ ev'.log = "")
       /\ (/\ JustifiedImportStep(n)
           /\ ev'.header.parent_hash \in Known(ledger[n])
           /\ ~IsAncestorOrEq(ledger[n], ledger[n].finalized,
                              ev'.header.parent_hash))
          => /\ ledger'[n].finalized = ledger[n].finalized
             /\ FinalizedSet(ledger'[n]) = FinalizedSet(ledger[n])
             /\ ~ev'.fail =>
                  /\ ev'.result = "Imported"
                  /\ Hash(ev'.header) \in Known(ledger'[n])
                  /\ Hash(ev'.header) \notin FinalizedSet(ledger'[n])
       /\ (/\ ev' /= ev
           /\ ev'.op = "queue_import"
           /\ ev'.node = n
           /\ Hash(ev'.header) \in Known(ledger[n]))
          => /\ ledger'[n] = ledger[n]
             /\ ev'.result = "AlreadyInChain"
             /\ ev'.delegated = None
       /\ (ev' /= ev /\ ev'.op = "author_block" /\ ev'.node = n) =>
            /\ ledger'[n].finalized = ledger[n].finalized
            /\ IsSome(ev'.submitted) =>
                 (/\ ~Unwrap(ev'.submitted).finalized
                  /\ Unwrap(ev'.submitted).justification = None)]_vars

\* The listener was given a valid message for a block of a fork the node
\* holds, after the node had finalized a block of the other fork; the
\* block had come through the import queue with its justification, which
\* the node stores, and was not made final then either.
C2_Witness ==
  /\ ListenerRan
  /\ IsSome(ev.finalize)
  /\ ev.last_finalized /= GenesisHash
  /\ ledger[ev.node].finalized = ev.last_finalized
  /\ Unwrap(ev.finalize).hash \in Known(ledger[ev.node])
  /\ ~IsAncestorOrEq(ledger[ev.node], ev.last_finalized, Unwrap(ev.finalize).hash)
  /\ Unwrap(ev.finalize).hash \notin FinalizedSet(ledger[ev.node])
  /\ ev.result = "Ok"
  /\ BlockOf(ledger[ev.node], Unwrap(ev.finalize).hash).justification =
       Some(Sign(finality_authority, Unwrap(ev.finalize).hash).raw)

\* C10: when a node's producer and its listener both call finalize for the
\* same hash, in either order, the second call leaves the ledger exactly as
\* the first left it, logs nothing unless the ledger reports an error of
\* its own, and the gadget goes on.
C10_SecondFinalizeChangesNothing ==
  [][\A n \in Node :
       (/\ FinalizeStep(n)
        /\ Unwrap(ev'.finalize).hash = ledger[n].finalized
        /\ ledger[n].finalized /= GenesisHash)
       => /\ ledger'[n] = ledger[n]
          /\ ev'.last_finalized = Unwrap(ev'.finalize).hash
          /\ gadget'[n] = gadget[n]
          /\ ~ev'.fail => (ev'.result = "Ok" /\ ev'.log = "")]_vars

\* The producer has called finalize for the hash its node's listener had
\* finalized before.
C10_Witness ==
  /\ ProducerRan
  /\ IsSome(ev.finalize)
  /\ Unwrap(ev.finalize).hash = ev.last_finalized
  /\ ev.last_finalized /= GenesisHash
  /\ ledger[ev.node].finalized = ev.last_finalized
  /\ ev.result = "Ok"

(***************************************************************************)
(* The two keys.  A node is sent blocks, justifications and finality       *)
(* messages signed with either key in either place.                        *)
(***************************************************************************)
Keys == {Alice, Bob}

\* Headers of a child of genesis sealed with key k.
KeyHeaders ==
  {WithSeal(base, SINGLETON_ENGINE_ID, Encode(Sign(k, Hash(base)))) :
     base \in BaseHeaders, k \in Keys}

\* Justifications over hash h signed with either key, or none.
KeyJustifications(h) == {None} \cup {Some(Encode(Sign(k, h))) : k \in Keys}

\* Finality messages for the blocks of KeyHeaders signed with either key.
KeyPayloads ==
  {EncodeMessage([block_hash |-> Hash(header), proof |-> Sign(k, Hash(header))]) :
     header \in KeyHeaders, k \in Keys}

NextKeys ==
  \/ \E header \in KeyHeaders, fail \in BOOLEAN :
       \E justification \in KeyJustifications(Hash(header)) :
         /\ fail => Reaches("B", header)
         /\ QueueImport("B", "NetworkBroadcast", header, justification,
                        Some(<<header.extrinsics_root>>), fail)
  \/ \E payload \in KeyPayloads, fail \in BOOLEAN :
       Listener("B", payload, fail)
  \/ GadgetStart("B")

SpecKeys == Init /\ [][NextKeys]_vars

\* The byte string starts with a signature made with key k.
SignedWith(bytes, k) ==
  /\ bytes /= <<>>
  /\ DOMAIN bytes[1] = {"signer", "msg"}
  /\ bytes[1].signer = k

\* C11: a seal is accepted by the verifier only when it was signed with
\* the block authority's key, never when signed with the finality
\* authority's; a justification marks an import final, and a finality
\* message brings a finalize call, only when signed with the finality
\* authority's key, never when signed with the block authority's; so a
\* block a node holds was sealed with the block authority's key, and a
\* block it finalized carries the finality authority's signature.
C11_KeysAreIndependent ==
  /\ QueueRan =>
       /\ ev.verified.ok <=>
            SignedWith(Last(ev.header.digest).data, block_authority)
       /\ SignedWith(Last(ev.header.digest).data, finality_authority) =>
            /\ ev.result = "Rejected"
            /\ ev.verified.err = "Invalid seal signature."
       /\ (IsSome(ev.delegated) /\ Unwrap(ev.delegated).finalized) <=>
            /\ ev.verified.ok
            /\ IsSome(ev.justification)
            /\ SignedWith(Unwrap(ev.justification), finality_authority)
  /\ ListenerRan =>
       /\ IsSome(ev.finalize) <=>
            SignedWith(Tail(ev.payload), finality_authority)
       /\ SignedWith(Tail(ev.payload), block_authority) =>
            /\ ev.finalize = None
            /\ ev.log = "Failed verifying finality proof"
  /\ \A n \in Node :
       /\ \A header \in KeyHeaders :
            Hash(header) \in Known(ledger[n]) =>
              SignedWith(Last(header.digest).data, block_authority)
       /\ \A h \in FinalizedSet(ledger[n]) \ {GenesisHash} :
            BlockOf(ledger[n], h).justification =
              Some(Encode(Sign(finality_authority, h)))

\* A block sealed with the block authority's key has been imported with a
\* justification signed with that same key, and a finality message for it
\* signed with that key has been dropped: the block is not final.
C11_Witness ==
  /\ ListenerRan
  /\ SignedWith(Tail(ev.payload), block_authority)
  /\ HashOf(ev.payload) \in Known(ledger[ev.node]) \ FinalizedSet(ledger[ev.node])
  /\ BlockOf(ledger[ev.node], HashOf(ev.payload)).justification = None
  /\ ev.finalize = None

(***************************************************************************)
(* The authoring loop runs on a thread of its own: a call of author_block  *)
(* that can be made is made, and a sleep ends.                             *)
(***************************************************************************)
SpecAuthorLive == SpecAuthor /\ WF_vars(NextAuthor)

\* The step begins a tick of the authoring loop.
TickStart == ticks' /= ticks

\* The step ends a tick of the authoring loop: author_block returns.
TickStep ==
  \E n \in Node :
    /\ pc[n] \in {"proposing", "importing"}
    /\ pc'[n] \notin {"proposing", "importing"}

\* C12: a tick of the authoring loop that fails (selecting the best chain,
\* initializing the proposer, proposing, importing) is a single call of
\* author_block after which the loop sleeps; when it failed before the
\* import no request was submitted and the ledger is as it was; the loop
\* is always about to call author_block, in that call, or sleeping; every sleep
\* ends, and whichever ticks fail, the loop runs every tick the bound of
\* the model allows.
C12_AuthoringFailuresAreNotFatal ==
  /\ [][TickStart =>
          /\ ticks' = ticks + 1
          /\ pc["A"] = "ready"
          /\ pc'["A"] = "proposing"]_vars
  /\ [][TickStep =>
          /\ ev'.op = "author_block"
          /\ pc[ev'.node] = "proposing"
          /\ pc'[ev'.node] = "sleeping"
          /\ ev'.step /= "ok" =>
               /\ ev'.result = "Err"
               /\ ev'.submitted = None
               /\ ledger' = ledger
               /\ announced' = announced]_vars
  /\ [](pc["A"] \in {"ready", "proposing", "sleeping"})
  /\ (pc["A"] = "sleeping") ~> (pc["A"] = "ready")
  /\ <>(ticks = MaxAuthorTicks)

\* The tick after a tick that failed while proposing has failed in the
\* import.
C12_Witness ==
  /\ AuthorRan
  /\ ticks = 2
  /\ ev.result = "Err"
  /\ IsSome(ev.submitted)
  /\ ledger["A"] = GenesisLedger
  /\ pc["A"] = "sleeping"

(***************************************************************************)
(* Properties of the finality gadget's producer.                           *)
(***************************************************************************)
\* The payload starts with a hash and the finality authority's signature
\* of it.
ValidMessage(payload) ==
  /\ Len(payload) >= 1 + SigLen
  /\ SubSeq(payload, 2, 1 + SigLen) = Sign(finality_authority, payload[1]).raw

\* C13: the producer runs only on a node that holds the finality key; on a
\* notification flagged new best for hash h it floods the message {h,
\* signature of h} and, in the same handler, calls finalize for h with the
\* encoding of that signature; on a notification not flagged new best it
\* floods nothing, calls nothing and leaves the ledger as it was.  A node
\* without the key gets no notifications, floods nothing and finalizes
\* only through its listener or an import; its producer never completes,
\* so its gadget ends only with the transport or the stream of messages,
\* and while it runs its listener passes every valid message to finalize.
C13_AttestsExactlyNewBest ==
  /\ [](ProducerRan =>
          /\ role[ev.node].attester
          /\ IF ev.notification.is_new_best
               THEN /\ ev.flooded = Some(MessageFor(ev.notification.hash))
                    /\ ev.finalize = FinalizeCallFor(ev.notification.hash)
                    /\ MessageFor(ev.notification.hash) \in gossip
                    /\ ~ev.fail =>
                         ev.notification.hash \in FinalizedSet(ledger[ev.node])
                           \/ ~IsAncestorOrEq(ledger[ev.node], ev.last_finalized,
                                              ev.notification.hash)
               ELSE /\ ev.flooded = None
                    /\ ev.finalize = None
                    /\ ev.result = "None"
                    /\ ledger[ev.node].finalized = ev.last_finalized)
  /\ []((ListenerRan /\ ~role[ev.node].attester /\ ValidMessage(ev.payload)) =>
          ev.finalize = FinalizeCallFor(ev.payload[1]))
  /\ [][/\ \A n \in Node :
             ~role[n].attester =>
               /\ notifs'[n] = <<>>
               /\ (gadget[n] = "running" /\ gadget'[n] /= "running") =>
                    /\ gadget'[n] = "exited"
                    /\ ev'.op = "exit"
                    /\ ev'.node = n
                    /\ ev'.which \in {"gossip_engine", "listener"}
               /\ ledger'[n].finalized /= ledger[n].finalized =>
                    (ev'.op \in {"listener", "queue_import"} /\ ev'.node = n)
        /\ (gossip' /= gossip /\ ev' /= ev) =>
             /\ ev'.op = "producer"
             /\ role[ev'.node].attester
             /\ ev'.notification.is_new_best
             /\ gossip' = gossip \cup {MessageFor(ev'.notification.hash)}
        /\ (notifs' /= notifs /\ ev'.op = "producer"
              /\ ~ev'.notification.is_new_best) =>
             (ledger' = ledger /\ gossip' = gossip)]_vars

\* The producer has read a notification of a block that is not the new
\* best (a block of a competing fork of the same height): nothing was
\* flooded for it.
C13_Witness ==
  /\ ProducerRan
  /\ ~ev.notification.is_new_best
  /\ ev.flooded = None
  /\ ev.notification.hash \in Known(ledger[ev.node])
  /\ MessageFor(ev.notification.hash) \notin gossip
  /\ ledger["B"].finalized /= GenesisHash

(***************************************************************************)
(* Properties of the gadget task as a whole.                               *)
(***************************************************************************)
\* C14, as the specification states it: the gadget task of a node ends
\* only when the future that drives the gossip transport completes.
C14_ExitsOnlyWithTransport ==
  [][\A n \in Node :
       (gadget[n] = "running" /\ gadget'[n] /= "running") =>
         (ev'.op = "exit" /\ ev'.node = n /\ ev'.which = "gossip_engine")]_vars

\* C14: the gadget task of a node, once it has started, ends as soon as
\* one of its futures completes: the future that drives the gossip transport, the stream of
\* inbound messages (the listener), or, on a node that holds the finality
\* key, the stream of import notifications (the producer; without the key
\* it never completes); once the task has ended, the node's listener and
\* producer handle nothing more and the task stays ended.
C14_ExitsWithAnyFuture ==
  [][\A n \in Node :
       /\ gadget'[n] /= gadget[n] =>
            \/ gadget[n] = "created" /\ gadget'[n] = "running" /\ ev' = ev
            \/ gadget[n] = "running" /\ gadget'[n] = "exited"
       /\ gadget'[n] = "exited" /\ gadget[n] /= "exited" =>
            /\ ev'.op = "exit"
            /\ ev'.node = n
            /\ ev'.which \in GadgetFutures
            /\ ev'.which = "producer" => role[n].attester
            /\ ledger' = ledger
       /\ gadget[n] = "exited" =>
            /\ gadget'[n] = "exited"
            /\ notifs'[n] = <<>>
            /\ ledger'[n].finalized /= ledger[n].finalized =>
                 (ev'.op = "queue_import" /\ ev'.node = n)
            /\ ev' /= ev => ~(ev'.op \in {"listener", "producer"} /\ ev'.node = n)]_vars

\* The stream of inbound messages of node B has completed while a message
\* for a block B holds was yet to be delivered to it: B's gadget task has
\* ended and the block is not final at B.
C14_Witness ==
  /\ ev.op = "exit"
  /\ ev.node = "B"
  /\ ev.which = "listener"
  /\ gadget["B"] = "exited"
  /\ \E p \in gossip :
       HashOf(p) \in Known(ledger["B"]) \ FinalizedSet(ledger["B"])

(***************************************************************************)
(* The authoring loop against the verifier.                                *)
(***************************************************************************)
\* What the verifier makes of the request's header with the request's
\* post-digests appended, as a peer receives it.
Reverified(request) ==
  verify(block_authority, "NetworkBroadcast", WireBlock(request).header,
         None, request.body)

\* C15: the header of the import request a tick submits is the proposed
\* header, unsealed; its only post-digest is a seal of the protocol that
\* holds the block authority's signature over the hash of that header; its
\* post hash is the hash of the header with the seal appended; and the
\* verifier, given the header with the seal appended, accepts it and gives
\* the same header, the same seal and the same post hash.
C15_SealingMatchesVerifier ==
  [][(TickStep /\ IsSome(ev'.submitted)) =>
       LET request == Unwrap(ev'.submitted)
           proposal == propose_block(Last(inflight[ev'.node]).best,
                                     Content(ev'.node), "ok")
           sealed == [proposal.header EXCEPT
                        !.digest = Append(proposal.header.digest,
                                          request.post_digests[1])]
       IN /\ request.header = proposal.header
          /\ request.header.digest = proposal.header.digest
          /\ Len(request.post_digests) = 1
          /\ request.post_digests[1] =
               Seal(SINGLETON_ENGINE_ID,
                    Sign(block_authority, Hash(proposal.header)).raw)
          /\ request.post_hash = Some(Hash(sealed))
          /\ Hash(sealed) /= Hash(proposal.header)
          /\ Reverified(request).ok
          /\ Reverified(request).import_params.header = request.header
          /\ Reverified(request).import_params.post_digests = request.post_digests
          /\ Reverified(request).import_params.post_hash = request.post_hash]_vars

\* A tick has submitted a block built on a block the loop authored before,
\* and the verifier accepts it as sealed.
C15_Witness ==
  /\ AuthorRan
  /\ IsSome(ev.submitted)
  /\ Unwrap(ev.submitted).header.parent_hash /= GenesisHash
  /\ Reverified(Unwrap(ev.submitted)).ok
  /\ WellSealed(WireBlock(Unwrap(ev.submitted)).header)

(***************************************************************************)
(* The authoring loop call by call, next to the import queue of the same   *)
(* node importing a block of another authority.                            *)
(***************************************************************************)
NextLoop ==
  \/ \E n \in Node, syncing \in BOOLEAN :
       ticks < MaxAuthorTicks /\ StartTick(n, syncing)
  \/ \E n \in Node, step \in ProposeSteps : ProposeReturns(n, step)
  \/ \E n \in Node, fail \in BOOLEAN : ImportReturns(n, fail)
  \/ \E n \in Node : Sleep(n)
  \/ ForeignBlock
  \/ \E b \in announced :
       /\ QueueImport("A", "NetworkBroadcast", b.header, None, b.body, FALSE)

SpecLoop == InitAuthor /\ [][NextLoop]_vars

\* C16: the authoring thread is blocked on at most one call, a proposal
\* while it is proposing and an import while it is importing, and on none
\* while it sleeps or is about to start a tick; a tick starts only when
\* the calls of the tick before have returned and the sleep has ended, and
\* the sleep begins only when they have returned, however long they take.
C16_TicksDoNotOverlap ==
  /\ [](\A n \in Node :
          /\ Len(inflight[n]) <= 1
          /\ inflight[n] /= <<>> <=> pc[n] \in {"proposing", "importing"}
          /\ pc[n] = "proposing" => Last(inflight[n]).call = "propose"
          /\ pc[n] = "importing" => Last(inflight[n]).call = "import")
  /\ [][\A n \in Node :
          /\ (TickStart /\ pc'[n] /= pc[n]) =>
               (pc[n] = "ready" /\ inflight[n] = <<>> /\ ticks' = ticks + 1)
          /\ (pc'[n] = "sleeping" /\ pc[n] /= "sleeping") =>
               (inflight[n] /= <<>> /\ inflight'[n] = <<>>)
          /\ (pc'[n] = "ready" /\ pc[n] /= "ready") => pc[n] = "sleeping"]_vars

\* The import of the second tick is still in flight while the node's import
\* queue has imported a block of another authority.
C16_Witness ==
  /\ pc["A"] = "importing"
  /\ ticks = 2
  /\ Len(inflight["A"]) = 1
  /\ Last(inflight["A"]).params.header.number = 2
  /\ QueueRan
  /\ ev.result = "Imported"

(***************************************************************************)
(* The consumer after a message that failed.                               *)
(***************************************************************************)
\* The step is the listener of node n handling a message.
ListenerStep(n) ==
  /\ ev' /= ev
  /\ ev'.op = "listener"
  /\ ev'.node = n

\* C17: whatever the listener handled before (a message that did not
\* decode, one that did not verify, one whose finalize call failed), it
\* handles the next message delivered as it would any: a valid message is
\* passed to finalize, any other is dropped with its warning, and the
\* gadget keeps running; a message whose finalize call failed changes
\* nothing in the ledger, and the ledger's finalized block moves only when
\* a handler makes a call for it, never by a retry.
C17_FailuresDoNotStall ==
  /\ [][\A n \in Node :
          /\ ListenerStep(n) =>
               /\ gadget[n] = "running"
               /\ gadget'[n] = "running"
               /\ IF ValidMessage(ev'.payload)
                    THEN /\ ev'.finalize = FinalizeCallFor(ev'.payload[1])
                         /\ ev'.result \in {"Ok", "Err"}
                    ELSE /\ ev'.finalize = None
                         /\ ev'.log \in {"Failed to decode gossip message",
                                         "Failed verifying finality proof"}
               /\ ev'.log /= "" => ledger'[n] = ledger[n]
          /\ ledger'[n].finalized /= ledger[n].finalized =>
               /\ ev'.node = n
               /\ \/ ev'.op \in {"listener", "producer"}
                       /\ ev'.finalize = FinalizeCallFor(ledger'[n].finalized)
                  \/ ev'.op = "queue_import"
                       /\ Unwrap(ev'.delegated).finalized]_vars
  /\ [](\A n \in Node :
          (ListenerRan /\ ev.node = n /\ ev.log /= "" /\ gadget[n] = "running")
            => \A payload \in TopicPayloads :
                 ENABLED Listener(n, payload, FALSE))

\* The finalize call for a block the node holds has failed: the block is
\* not final, the gadget runs, and the listener takes the next message.
C17_Witness ==
  /\ ListenerRan
  /\ ev.fail
  /\ ev.log = "Failed finalizing block"
  /\ HashOf(ev.payload) \in Known(ledger[ev.node]) \ FinalizedSet(ledger[ev.node])
  /\ gadget[ev.node] = "running"
  /\ ENABLED Listener(ev.node, ev.payload, FALSE)

(***************************************************************************)
(* The header after a rejection.                                           *)
(***************************************************************************)
\* The header the queue was given, as check_header leaves it.
HeaderAfterCheck == check_header(block_authority, ev.header).header

RejectedForEngine ==
  /\ QueueRan
  /\ ~ev.verified.ok
  /\ ev.verified.err = "Header seal for wrong engine"

\* C18, as the specification states it: a header rejected for a seal of
\* another engine has, after the rejection, the digest it had before.
C18_RejectedHeaderUntouched ==
  RejectedForEngine => HeaderAfterCheck.digest = ev.header.digest

\* C18: a header rejected for a seal of another engine has lost that seal:
\* its digest after the rejection is its digest before the call without
\* the last item, the rest of the header is as it was, and no import
\* request is made of it.
C18_RejectedHeaderLosesSeal ==
  RejectedForEngine =>
    /\ Last(ev.header.digest).kind = "Seal"
    /\ Last(ev.header.digest).engine /= SINGLETON_ENGINE_ID
    /\ HeaderAfterCheck.digest = Pop(ev.header.digest)
    /\ HeaderAfterCheck.digest /= ev.header.digest
    /\ HeaderAfterCheck = [ev.header EXCEPT !.digest = Pop(ev.header.digest)]
    /\ ev.delegated = None
    /\ ledger[ev.node] = GenesisLedger

\* A header with a pre-runtime item and a seal of another engine was
\* rejected: the pre-runtime item is all that is left of its digest.
C18_Witness ==
  /\ RejectedForEngine
  /\ Len(ev.header.digest) = 2
  /\ HeaderAfterCheck.digest = <<PreRuntime(OtherEngineId, <<PadByte>>)>>

(***************************************************************************)
(* The authoring loop on a node that is syncing.                           *)
(***************************************************************************)
\* What a tick of node n makes of the ledger L when the node is not
\* syncing, for each answer of the inner import.
TickNotSyncing(n, best_header, L, step) ==
  {author_block(Alice, best_header, L, FALSE, Content(n), step, fail) :
     fail \in BOOLEAN}

\* C19: a tick on which the node reports it is syncing does what a tick
\* does when it is not: with the proposal succeeding it submits the import
\* request for the sealed block proposed on the best block, and the result,
\* the ledger and the blocks announced are those of a tick that is not
\* syncing.
C19_SyncingIsAdvisory ==
  [][(TickStep /\ ev'.syncing) =>
       /\ ev'.step = "ok" =>
            /\ IsSome(ev'.submitted)
            /\ OwnSealedRequest(Unwrap(ev'.submitted))
            /\ Unwrap(ev'.submitted).header.parent_hash =
                 Last(inflight[ev'.node]).best.hash
            /\ Unwrap(ev'.submitted).header.parent_hash = ledger[ev'.node].best
       /\ \E r \in TickNotSyncing(ev'.node, Last(inflight[ev'.node]).best,
                                  ledger[ev'.node], ev'.step) :
            /\ ev'.submitted = r.submitted
            /\ ev'.result = r.result
            /\ ledger'[ev'.node] = r.ledger
            /\ announced' = IF r.imported
                              THEN announced \cup {WireBlock(Unwrap(r.submitted))}
                              ELSE announced]_vars

\* A tick on which the node was syncing has imported the block it
\* authored, which is the node's best block.
C19_Witness ==
  /\ AuthorRan
  /\ ev.syncing
  /\ ev.result = "Ok"
  /\ IsSome(ev.submitted)
  /\ ledger[ev.node].best = Unwrap(Unwrap(ev.submitted).post_hash)
  /\ WireBlock(Unwrap(ev.submitted)) \in announced

(***************************************************************************)
(* Byte strings that are not of the signature's length.                    *)
(***************************************************************************)
\* The last digest item of the header is a seal of the protocol.
ProtocolSealed(header) ==
  /\ header.digest /= <<>>
  /\ Last(header.digest).kind = "Seal"
  /\ Last(header.digest).engine = SINGLETON_ENGINE_ID

\* C20: a seal of the protocol whose payload is shorter or longer than a
\* signature is rejected as an invalid seal, and a justification that is
\* shorter or longer than a signature is treated as absent: the import is
\* not marked final and carries no justification.
C20_WrongLengthNeverDecodes ==
  QueueRan =>
    /\ (ProtocolSealed(ev.header) /\ Len(Last(ev.header.digest).data) /= SigLen)
         => /\ ~ev.verified.ok
            /\ ev.verified.err = "Header with invalid seal"
    /\ (ev.verified.ok /\ IsSome(ev.justification)
          /\ Len(Unwrap(ev.justification)) /= SigLen)
         => /\ IsSome(ev.delegated)
            /\ ~Unwrap(ev.delegated).finalized
            /\ Unwrap(ev.delegated).justification = None

\* What the code does of such byte strings: one that is shorter than a
\* signature never decodes; one that is longer decodes to the signature
\* its first bytes hold, the bytes after it being ignored.
C20_ShorterNeverDecodes ==
  QueueRan =>
    /\ (ProtocolSealed(ev.header) /\ Len(Last(ev.header.digest).data) < SigLen)
         => /\ ~ev.verified.ok
            /\ ev.verified.err = "Header with invalid seal"
    /\ (ev.verified.ok /\ IsSome(ev.justification)
          /\ Len(Unwrap(ev.justification)) < SigLen)
         => /\ IsSome(ev.delegated)
            /\ ~Unwrap(ev.delegated).finalized
            /\ Unwrap(ev.delegated).justification = None
    /\ (ProtocolSealed(ev.header) /\ Len(Last(ev.header.digest).data) > SigLen)
         => (ev.verified.ok <=> WellSealed(ev.header))
    /\ (ev.verified.ok /\ IsSome(ev.justification)
          /\ Len(Unwrap(ev.justification)) > SigLen)
         => (Unwrap(ev.delegated).finalized
               <=> Justifies(ev.justification, Hash(ev.header)))

\* A block whose seal and whose justification are each a signature
\* followed by one more byte has been imported as final.
C20_Witness ==
  /\ QueueRan
  /\ ProtocolSealed(ev.header)
  /\ IsSome(ev.justification)
  /\ Len(Last(ev.header.digest).data) = SigLen + 1
  /\ Len(Unwrap(ev.justification)) = SigLen + 1
  /\ ev.verified.ok
  /\ ev.result = "Imported"
  /\ ledger[ev.node].finalized = Hash(ev.header)

(***************************************************************************)
(* The request the import queue hands to the inner import.                 *)
(***************************************************************************)
\* C21: the request the decorated import hands to the inner import for a
\* verified block is marked final exactly when it carries a justification,
\* and it carries one exactly when the justification supplied decodes to
\* the finality authority's signature over the post-seal hash; what it
\* carries then is that signature's encoding; a justification that does
\* not decode or does not verify is on no request and on no block of the
\* ledger.
C21_FinalIffJustified ==
  (QueueRan /\ ev.verified.ok) =>
    /\ IsSome(ev.delegated)
    /\ LET request == Unwrap(ev.delegated)
           post_hash == Unwrap(ev.verified.import_params.post_hash)
       IN /\ request.finalized <=> IsSome(request.justification)
          /\ IsSome(request.justification) <=> Justifies(ev.justification, post_hash)
          /\ IsSome(request.justification) =>
               request.justification = Some(Sign(finality_authority, post_hash).raw)
          /\ request.header = ev.verified.import_params.header
          /\ request.post_hash = ev.verified.import_params.post_hash
    /\ \A b \in ledger[ev.node].blocks :
         \/ b.justification = None
         \/ b.justification = Some(Sign(finality_authority, b.hash).raw)

\* A block came with the finality authority's signature with a byte
\* flipped: it was imported without a justification and is not final.
C21_Witness ==
  /\ QueueRan
  /\ ev.verified.ok
  /\ ev.justification =
       Some(Encode(Corrupt(Sign(finality_authority, Hash(ev.header)))))
  /\ ev.result = "Imported"
  /\ Unwrap(ev.delegated).justification = None
  /\ BlockOf(ledger[ev.node], Hash(ev.header)).justification = None
  /\ ledger[ev.node].finalized = GenesisHash

(***************************************************************************)
(* The producer floods before it finalizes.                                *)
(***************************************************************************)
\* C22: on a notification of a new best block h the producer first floods
\* the finality message for h and then calls finalize for h, and the flood
\* is the same whether the local finalize succeeds or fails: the message is
\* on the topic after the step, and a finalize that failed has left the
\* attester's ledger as it was.
C22_FloodsBeforeFinalize ==
  (ProducerRan /\ ev.notification.is_new_best) =>
    LET h == ev.notification.hash IN
      /\ ev.calls = <<"gossip_message", "finalize_block">>
      /\ ev.flooded = Some(MessageFor(h))
      /\ MessageFor(h) \in gossip
      /\ ev.finalize = FinalizeCallFor(h)
      /\ ev.fail => ev.result = "Err"
      /\ ev.result = "Err" =>
           /\ ledger[ev.node].finalized = ev.last_finalized
           /\ ev.log = "Failed finalizing block"

\* A peer has finalized, on the attester's message, a block the attester
\* itself holds and has not finalized: the attester's own finalize failed.
C22_Witness ==
  /\ ListenerRan
  /\ ev.node = "B"
  /\ role["A"].attester
  /\ ~role["B"].attester
  /\ ev.result = "Ok"
  /\ IsSome(ev.finalize)
  /\ LET h == Unwrap(ev.finalize).hash IN
       /\ h /= GenesisHash
       /\ ev.payload = MessageFor(h)
       /\ MessageFor(h) \in gossip
       /\ ledger["B"].finalized = h
       /\ h \in Known(ledger["A"])
       /\ ledger["A"].best = h
       /\ notifs["A"] = <<>>
       /\ ledger["A"].finalized = GenesisHash

====
